---- MODULE Spec2Model ----
(***************************************************************************)
(* Hydroponics parameter relay: the line parser, the synthetic line        *)
(* formatter, the websocket subscriber registry with its delivery passes   *)
(* (hydroponics_server.py), the serial acquisition loop with reconnect and *)
(* staleness logic (serial_processor.py), the status handlers of both      *)
(* servers (http_handler.py), and the pH walk of serial_monitor.py.        *)
(*                                                                         *)
(* Text is modelled as sequences of one-character strings.  A float is     *)
(* modelled by the exact decimal it denotes, [m, e] standing for           *)
(* m * 10^(-e) with trailing zeros removed; two short decimal literals     *)
(* convert to equal doubles exactly when these normal forms are equal.     *)
(***************************************************************************)
EXTENDS Integers, Sequences, FiniteSets, TLC

VARIABLES
    \* --- line processing (the body of "for line in lines") ---
    kind,        \* "wire": a device line is processed; "mock": a generated line
    variant,     \* "hs": hydroponics_server.read_serial, "sp": serial_processor.read_serial
    desc,        \* the tokens the device line was built from
    rd,          \* the reading the generator formats
    lines,       \* lines still to be processed by the for loop
    done,        \* number of lines the for loop has processed
    forwarded,   \* messages handed on (hs: json.dumps for the clients, sp: "Parsed data")
    warned,      \* number of "Incomplete or invalid data" warnings
    \* --- hydroponics_server.py ---
    MOCK_DATA,              \* the module's MOCK_DATA flag
    hs_ser,                 \* the module's ser: "None" or "open"
    connected_clients,      \* the module's set of websockets
    hpc,                    \* each websocket_handler's position
    peerOpen,               \* whether a send to the peer can still succeed
    failedSend,             \* history: a delivery attempt to the handle has failed
    received,               \* the broadcast messages each peer has been sent
    taskpc,                 \* position of the read_serial task
    taskError,              \* the exception that ended or interrupted it last
    message,                \* json.dumps of the reading being delivered
    iterStart,              \* connected_clients when the for loop took its iterator
    iterVisited,            \* the clients the iterator has yielded
    websockets_to_remove,   \* the pass's set of failed clients
    buffer,                 \* read_serial's parse buffer
    pendingLines,           \* the lines of the chunk from the current one on
    device,                 \* the chunks the device has still to deliver
    passNo,                 \* number of delivery passes begun
    data,                   \* the reading generate_mock_data built in its last turn
    walk,                   \* generate_mock_data's locals ph, temp (in tenths), tds and water_idx
    stalled,                \* connections whose peer has stopped draining: a send to one never completes
    \* --- serial_processor.py, http_handler.py, settings.py ---
    settings_MOCK_DATA,     \* settings.MOCK_DATA, read from the environment at import
    sp_ser,                 \* serial_processor.ser: "None" or "open"
    sp_pc,                  \* read_serial's position: "entry" (lines 81-96) or "loop"
    reconnect_attempts,     \* read_serial's counter of failed reconnects
    no_data_warning_sent,   \* read_serial's flag of the 15 second warning
    silence,                \* time.time() - last_message_time at the next loop top, in 0.1 s
    sp_gap,                 \* current_time - last_message_time the last try block saw
    sp_buffer,              \* read_serial's parse buffer
    sp_reads,               \* number of chunks read from the device
    sp_device,              \* the chunks the device has still to deliver
    sp_path,                \* the branch the last turn took before the try block
    sp_event,               \* what the last turn's try block met
    \* --- the HTTP side of both servers ---
    api_response,           \* the body of the last HTTP response
    api_code,               \* its status code
    api_count,              \* number of /api/status requests answered
    \* --- serial_monitor.py ---
    mock_data,              \* the module's mock_data dict: its pH members, or its water members
    mock_data_str,          \* the text of the members followed in the last string generate_mock_data returned
    mon_pc,                 \* main's position: "start", "connect", "read" or "mock"
    mon_ser,                \* main's ser: "None", "open" or "closed"
    retries,                \* main's count of failed opens
    mon_calls,              \* the serial.Serial and time.sleep calls of main's connect loop, in order
    mon_device,             \* the lines the device has still to deliver to the monitor
    mon_logged,             \* number of device lines main has logged
    mon_emitted,            \* number of strings write_mock_data_to_log has logged
    \* --- the serial port, and initialize_serial called on its own ---
    in_waiting,             \* the bytes in the port's input buffer before the program opens it
    initial_data,           \* the bytes the flush after an open has read and logged
    port,                   \* what the call will find: the path, the holders, the opens' outcomes
    init_calls,             \* the serial.Serial and time.sleep calls of the call, in order
    init_returned           \* what the call returned: "None" or "open"

parseVars == <<kind, variant, desc, rd, lines, done, forwarded, warned>>

serverVars == <<MOCK_DATA, hs_ser, connected_clients, hpc, peerOpen, failedSend,
                received, taskpc, taskError, message, iterStart, iterVisited,
                websockets_to_remove, buffer, pendingLines, device, passNo, data, walk, stalled>>

spVars == <<settings_MOCK_DATA, sp_ser, sp_pc, reconnect_attempts, no_data_warning_sent,
            silence, sp_gap, sp_buffer, sp_reads, sp_device, sp_path, sp_event>>

httpVars == <<api_response, api_code, api_count>>

monVars == <<mock_data, mock_data_str, mon_pc, mon_ser, retries, mon_calls,
             mon_device, mon_logged, mon_emitted>>

portVars == <<in_waiting, initial_data, port, init_calls, init_returned>>

vars == <<parseVars, serverVars, spVars, httpVars, monVars, portVars>>

----------------------------------------------------------------------------
(* Text helpers: str.lower, str.strip, str.split *)

SetMin(S) == CHOOSE x \in S : \A y \in S : x <= y
SetMax(S) == CHOOSE x \in S : \A y \in S : x >= y

UpperLetters == <<"A","B","C","D","E","F","G","H","I","J","K","L","M",
                  "N","O","P","Q","R","S","T","U","V","W","X","Y","Z">>
LowerLetters == <<"a","b","c","d","e","f","g","h","i","j","k","l","m",
                  "n","o","p","q","r","s","t","u","v","w","x","y","z">>
DigitChars == <<"0","1","2","3","4","5","6","7","8","9">>

CharLower(c) ==
    IF \E i \in 1..Len(UpperLetters) : UpperLetters[i] = c
    THEN LowerLetters[CHOOSE i \in 1..Len(UpperLetters) : UpperLetters[i] = c]
    ELSE c

\* the mutant of StrLower: text is left in the case it came in
StrLowerKeepCase(s) == s

StrLower(s) == [i \in 1..Len(s) |-> CharLower(s[i])]

IsSpace(c) == c \in {" ", "\t", "\r", "\n"}

Strip(s) ==
    LET idx == {i \in 1..Len(s) : ~IsSpace(s[i])}
    IN  IF idx = {} THEN <<>> ELSE SubSeq(s, SetMin(idx), SetMax(idx))

RECURSIVE Split(_, _)
Split(s, sep) ==
    LET idx == {i \in 1..Len(s) : s[i] = sep}
    IN  IF idx = {} THEN <<s>>
        ELSE <<SubSeq(s, 1, SetMin(idx) - 1)>>
             \o Split(SubSeq(s, SetMin(idx) + 1, Len(s)), sep)

RECURSIVE Join(_, _)
Join(parts, sep) ==
    IF Len(parts) = 0 THEN <<>>
    ELSE IF Len(parts) = 1 THEN parts[1]
    ELSE parts[1] \o <<sep>> \o Join(Tail(parts), sep)

----------------------------------------------------------------------------
(* Numbers: float(value), int(value) on decimal literals *)

IsDigit(c) == \E i \in 1..Len(DigitChars) : DigitChars[i] = c
DigitVal(c) == (CHOOSE i \in 1..Len(DigitChars) : DigitChars[i] = c) - 1
AllDigits(s) == \A i \in 1..Len(s) : IsDigit(s[i])

RECURSIVE DigitsValue(_)
DigitsValue(ds) ==
    IF ds = <<>> THEN 0
    ELSE DigitsValue(SubSeq(ds, 1, Len(ds) - 1)) * 10 + DigitVal(ds[Len(ds)])

RECURSIVE Normalize(_, _)
Normalize(m, e) ==
    IF m = 0 THEN [m |-> 0, e |-> 0]
    ELSE IF e > 0 /\ m % 10 = 0 THEN Normalize(m \div 10, e - 1)
    ELSE [m |-> m, e |-> e]

Signed(v) == Len(v) > 0 /\ v[1] \in {"+", "-"}
SignOf(v) == IF Len(v) > 0 /\ v[1] = "-" THEN -1 ELSE 1
Unsigned(v) == IF Signed(v) THEN Tail(v) ELSE v

\* the mutant of ParseFloat: the fraction digits are dropped
ParseFloatTruncating(v) ==
    LET body == Unsigned(v)
        dots == {i \in 1..Len(body) : body[i] = "."}
        ip == IF dots = {} THEN body ELSE SubSeq(body, 1, SetMin(dots) - 1)
        fp == IF dots = {} THEN <<>> ELSE SubSeq(body, SetMin(dots) + 1, Len(body))
    IN  IF AllDigits(ip) /\ AllDigits(fp) /\ Len(ip) + Len(fp) > 0
        THEN [ok |-> TRUE, val |-> Normalize(SignOf(v) * DigitsValue(ip), 0)]
        ELSE [ok |-> FALSE, val |-> Normalize(0, 0)]

\* float(value): [sign] digits [. digits]; anything else raises ValueError.
\* (The inputs of this model use no exponent, underscore, "inf" or "nan".)
ParseFloat(v) ==
    LET body == Unsigned(v)
        dots == {i \in 1..Len(body) : body[i] = "."}
        ip == IF dots = {} THEN body ELSE SubSeq(body, 1, SetMin(dots) - 1)
        fp == IF dots = {} THEN <<>> ELSE SubSeq(body, SetMin(dots) + 1, Len(body))
    IN  IF AllDigits(ip) /\ AllDigits(fp) /\ Len(ip) + Len(fp) > 0
        THEN [ok |-> TRUE, val |-> Normalize(SignOf(v) * DigitsValue(ip \o fp), Len(fp))]
        ELSE [ok |-> FALSE, val |-> Normalize(0, 0)]

\* int(value): [sign] digits; anything else raises ValueError.
ParseInt(v) ==
    LET body == Unsigned(v)
    IN  IF AllDigits(body) /\ Len(body) > 0
        THEN [ok |-> TRUE, val |-> SignOf(v) * DigitsValue(body)]
        ELSE [ok |-> FALSE, val |-> 0]

----------------------------------------------------------------------------
(* parsed_data: a dict, kept in insertion order as a sequence of           *)
(* <<key, value>> pairs                                                    *)

HasKey(pd, k) == \E i \in 1..Len(pd) : pd[i][1] = k
Get(pd, k) == pd[CHOOSE i \in 1..Len(pd) : pd[i][1] = k][2]
DictSet(pd, k, v) ==
    IF HasKey(pd, k)
    THEN [i \in 1..Len(pd) |-> IF pd[i][1] = k THEN <<k, v>> ELSE pd[i]]
    ELSE Append(pd, <<k, v>>)

KeyPh == <<"p","h">>
KeyTemp == <<"t","e","m","p">>
KeyTemperature == <<"t","e","m","p","e","r","a","t","u","r","e">>
KeyWater == <<"w","a","t","e","r">>
KeyWaterlevel == <<"w","a","t","e","r","l","e","v","e","l">>
KeyTds == <<"t","d","s">>

\* one "for part in parts" step; lowerWater tells the two read loops apart
ParsePart(pd, part, lowerWater) ==
    LET key_value == Split(part, ":")
    IN  IF Len(key_value) # 2 THEN pd
        ELSE LET key == StrLower(Strip(key_value[1]))
                 value == Strip(key_value[2])
             IN  IF key = KeyPh
                 THEN IF ParseFloat(value).ok
                      THEN DictSet(pd, "ph", ParseFloat(value).val) ELSE pd
                 ELSE IF key = KeyTemp \/ key = KeyTemperature
                 THEN IF ParseFloat(value).ok
                      THEN DictSet(pd, "temperature", ParseFloat(value).val) ELSE pd
                 ELSE IF key = KeyWater \/ key = KeyWaterlevel
                 THEN DictSet(pd, "waterLevel",
                              IF lowerWater THEN StrLower(value) ELSE value)
                 ELSE IF key = KeyTds
                 THEN IF ParseInt(value).ok
                      THEN DictSet(pd, "tds", ParseInt(value).val) ELSE pd
                 ELSE pd

RECURSIVE ParseParts(_, _, _)
ParseParts(pd, parts, lowerWater) ==
    IF parts = <<>> THEN pd
    ELSE ParseParts(ParsePart(pd, parts[1], lowerWater), Tail(parts), lowerWater)

\* hydroponics_server.read_serial: the water level is copied as it came
ParseLineHS(line) == ParseParts(<<>>, Split(line, ","), FALSE)

\* serial_processor.read_serial: the water level is lowercased
ParseLineSP(line) == ParseParts(<<>>, Split(line, ","), TRUE)

\* the mutant of IsComplete: the tds field is not required
IsCompleteWithoutTds(pd) ==
    HasKey(pd, "ph") /\ HasKey(pd, "temperature") /\ HasKey(pd, "waterLevel")

\* 'ph' in parsed_data and 'temperature' in ... and 'waterLevel' in ... and 'tds' in ...
IsComplete(pd) ==
    /\ HasKey(pd, "ph") /\ HasKey(pd, "temperature")
    /\ HasKey(pd, "waterLevel") /\ HasKey(pd, "tds")

\* json.dumps(parsed_data): an object whose members keep the dict's order;
\* a float and an int become JSON numbers, a str a JSON string
JsonValue(k, v) ==
    IF k \in {"ph", "temperature"} THEN [t |-> "number", m |-> v.m, e |-> v.e]
    ELSE IF k = "tds" THEN [t |-> "integer", n |-> v]
    ELSE [t |-> "string", s |-> v]

\* the mutant of JsonDumps: the last member is left out
JsonDumpsWithoutLast(pd) ==
    [i \in 1..(Len(pd) - 1) |-> <<pd[i][1], JsonValue(pd[i][1], pd[i][2])>>]

JsonDumps(pd) == [i \in 1..Len(pd) |-> <<pd[i][1], JsonValue(pd[i][1], pd[i][2])>>]

----------------------------------------------------------------------------
(* serial_monitor.generate_mock_data: the line it formats                  *)

RECURSIVE NatToChars(_)
NatToChars(n) ==
    IF n < 10 THEN <<DigitChars[n + 1]>>
    ELSE NatToChars(n \div 10) \o <<DigitChars[(n % 10) + 1]>>

IntToChars(n) == IF n < 0 THEN <<"-">> \o NatToChars(-n) ELSE NatToChars(n)

Pow10(k) == IF k = 0 THEN 1 ELSE IF k = 1 THEN 10 ELSE 100

\* the mutant of FormatFixed2: one decimal is written (":.1f"), the second cut
FormatFixed1(v) ==
    LET h == v.m * Pow10(2 - v.e)
        a == IF h < 0 THEN -h ELSE h
    IN  (IF h < 0 THEN <<"-">> ELSE <<>>)
        \o NatToChars(a \div 100) \o <<".">> \o <<DigitChars[((a \div 10) % 10) + 1]>>

\* f"{x:.2f}" of a value with at most two decimals (v.e <= 2)
FormatFixed2(v) ==
    LET h == v.m * Pow10(2 - v.e)
        a == IF h < 0 THEN -h ELSE h
    IN  (IF h < 0 THEN <<"-">> ELSE <<>>)
        \o NatToChars(a \div 100) \o <<".">>
        \o <<DigitChars[((a \div 10) % 10) + 1], DigitChars[(a % 10) + 1]>>

\* f"pH:{ph:.2f},temp:{temperature:.2f},water:{water},tds:{int(tds)}"
FormatMockData(r) ==
    <<"p","H",":">> \o FormatFixed2(r.ph)
    \o <<",","t","e","m","p",":">> \o FormatFixed2(r.temperature)
    \o <<",","w","a","t","e","r",":">> \o r.water
    \o <<",","t","d","s",":">> \o IntToChars(r.tds)

----------------------------------------------------------------------------
(* Inputs of the line-processing specification *)

Absent == [present |-> FALSE]
Tok(key, txt, ok, val) == [present |-> TRUE, key |-> key, txt |-> txt, ok |-> ok, val |-> val]
Dec(m, e) == [m |-> m, e |-> e]

PhKeys == {<<"p","H">>, <<"P","H">>, <<" ","p","h"," ">>}
PhValues == {[txt |-> <<"6",".","2","0">>, ok |-> TRUE, val |-> Dec(62, 1)],
             [txt |-> <<"7">>, ok |-> TRUE, val |-> Dec(7, 0)],
             [txt |-> <<"a","b","c">>, ok |-> FALSE, val |-> Dec(0, 0)]}
TempKeys == {<<"t","e","m","p">>, <<"T","e","m","p","e","r","a","t","u","r","e">>}
TempValues == {[txt |-> <<"2","3",".","2","0">>, ok |-> TRUE, val |-> Dec(232, 1)],
               [txt |-> <<"-","1",".","5">>, ok |-> TRUE, val |-> Dec(-15, 1)],
               [txt |-> <<"2","x">>, ok |-> FALSE, val |-> Dec(0, 0)]}
WaterKeys == {<<"w","a","t","e","r">>, <<"W","a","t","e","r","L","e","v","e","l">>}
WaterValues == {[txt |-> <<"m","e","d","i","u","m">>, ok |-> TRUE, val |-> <<"m","e","d","i","u","m">>],
                [txt |-> <<"L","O","W">>, ok |-> TRUE, val |-> <<"L","O","W">>]}
TdsKeys == {<<"t","d","s">>, <<"T","D","S">>}
TdsValues == {[txt |-> <<"6","5","2">>, ok |-> TRUE, val |-> 652],
              [txt |-> <<"6","5",".","2">>, ok |-> FALSE, val |-> 0]}
\* a token with an unknown key, one without a colon, one with two colons
ExtraParts == {<<>>, <<"f","o","o",":","1">>, <<"j","u","n","k">>, <<"a",":","b",":","c">>}

Tokens(keys, values) ==
    {Absent} \cup {Tok(k, x.txt, x.ok, x.val) : k \in keys, x \in values}

Descs ==
    [ph : Tokens(PhKeys, PhValues), temp : Tokens(TempKeys, TempValues),
     water : Tokens(WaterKeys, WaterValues), tds : Tokens(TdsKeys, TdsValues),
     extra : ExtraParts, rev : BOOLEAN]

NoDesc == [ph |-> Absent, temp |-> Absent, water |-> Absent, tds |-> Absent,
           extra |-> <<>>, rev |-> FALSE]

TokText(t) == t.key \o <<":">> \o t.txt

RECURSIVE Reverse(_)
Reverse(s) == IF s = <<>> THEN <<>> ELSE Append(Reverse(Tail(s)), s[1])

\* the device line of a descriptor: its tokens joined by commas
Render(d) ==
    LET toks == SelectSeq(<<d.ph, d.temp, d.water, d.tds>>, LAMBDA t : t.present)
        parts == [i \in 1..Len(toks) |-> TokText(toks[i])]
                 \o (IF d.extra = <<>> THEN <<>> ELSE <<d.extra>>)
    IN  Join(IF d.rev THEN Reverse(parts) ELSE parts, ",")

\* the line the loops document: pH:6.20,temp:23.20,water:medium,tds:652
GoodLine ==
    <<"p","H",":","6",".","2","0",",","t","e","m","p",":","2","3",".","2","0",",","w","a","t","e","r",":","m","e","d","i","u","m",",","t","d","s",":","6","5","2">>

WaterLevels == {<<"l","o","w">>, <<"m","e","d","i","u","m">>, <<"h","i","g","h">>}

\* readings whose ph and temperature have at most two decimals
Readings ==
    [ph : {Dec(4, 0), Dec(62, 1), Dec(625, 2), Dec(705, 2), Dec(9, 0), Dec(-5, 1)},
     temperature : {Dec(15, 0), Dec(232, 1), Dec(2005, 2), Dec(35, 0)},
     water : WaterLevels,
     tds : {0, 7, 200, 652, 1500}]

NoReading == [ph |-> Dec(0, 0), temperature |-> Dec(0, 0), water |-> <<>>, tds |-> 0]

\* the characters with codes 32 to 126, in code order ("grave" stands for the
\* grave accent, code 96)
Printable ==
    <<" ", "!", "\"", "#", "$", "%", "&", "'", "(", ")", "*", "+", ",", "-", ".", "/",
      "0", "1", "2", "3", "4", "5", "6", "7", "8", "9", ":", ";", "<", "=", ">", "?",
      "@", "A", "B", "C", "D", "E", "F", "G", "H", "I", "J", "K", "L", "M", "N", "O",
      "P", "Q", "R", "S", "T", "U", "V", "W", "X", "Y", "Z", "[", "\\", "]", "^", "_",
      "grave", "a", "b", "c", "d", "e", "f", "g", "h", "i", "j", "k", "l", "m", "n", "o",
      "p", "q", "r", "s", "t", "u", "v", "w", "x", "y", "z", "{", "|", "}", "~">>

\* the byte the device sends for a character, and the character a byte below
\* 128 decodes to
Ord(c) ==
    IF c = "\t" THEN 9 ELSE IF c = "\n" THEN 10 ELSE IF c = "\r" THEN 13
    ELSE 31 + CHOOSE i \in 1..Len(Printable) : Printable[i] = c
Chr(b) ==
    IF b = 9 THEN "\t" ELSE IF b = 10 THEN "\n" ELSE IF b = 13 THEN "\r"
    ELSE Printable[b - 31]
Encode(text) == [i \in 1..Len(text) |-> Ord(text[i])]

\* what ser.read(ser.in_waiting) returns, chunk by chunk: bytes
ChunkGood == Encode(GoodLine \o <<"\r", "\n">>)
ChunkHead ==
    Encode(<<"T","D","S",":","6","5","2",",","w","a","t","e","r",":","L","O","W",",">>)
ChunkTail ==
    Encode(<<"t","e","m","p",":","-","1",".","5",",","p","H",":","7">> \o <<"\n">>)
ChunkBadThenGood ==
    Encode(<<"p","H",":","a","b","c",",","t","e","m","p",":","2","3",".","2",",","w","a","t","e","r",":","l","o","w",",","t","d","s",":","1","0","0">> \o <<"\n">> \o GoodLine \o <<"\n">>)
ChunkUndecodable == Encode(<<"p", "H">>) \o <<255>>

\* bytes.decode('utf-8'): a byte below 128 decodes to its character and the
\* two bytes 195, 169 together to one character (e with an acute accent,
\* the one character outside ASCII that is followed); any other byte of 128
\* or more, and either of the two without the other, raises UnicodeDecodeError
Decodable(chunk) ==
    \A i \in 1..Len(chunk) :
        \/ chunk[i] < 128
        \/ chunk[i] = 195 /\ i < Len(chunk) /\ chunk[i + 1] = 169
        \/ chunk[i] = 169 /\ i > 1 /\ chunk[i - 1] = 195
Decode(chunk) ==
    SelectSeq([i \in 1..Len(chunk) |->
                  IF chunk[i] = 195 THEN "e-acute"
                  ELSE IF chunk[i] = 169 THEN "" ELSE Chr(chunk[i])],
              LAMBDA c : c # "")

\* what the device delivers over a run: a line in one chunk, a line split
\* over two chunks, a malformed line before a good one, bytes that are no
\* text before a line or between the halves of one, and two lines
Transmissions ==
    {<<ChunkGood>>,
     <<ChunkHead, ChunkTail>>,
     <<ChunkBadThenGood>>,
     <<ChunkUndecodable, ChunkGood>>,
     <<ChunkHead, ChunkUndecodable, ChunkTail>>,
     <<ChunkGood, ChunkGood>>}

\* the transmissions serial_processor.read_serial is run on
SpTransmissions == {<<ChunkGood>>, <<ChunkHead, ChunkUndecodable, ChunkTail>>}

----------------------------------------------------------------------------
(* Bounds, and the resting values each specification gives the state it    *)
(* does not exercise                                                       *)

MaxClients == 2     \* websocket connections accepted over a run
MaxPasses == 1      \* delivery passes begun over a run
MaxSilence == 310   \* the silence clock saturates here, past every threshold
MaxQueries == 1     \* /api/status requests answered over a run
MaxTurnPasses == 2  \* delivery passes begun over a run that follows the generator's locals

Handles == 1..MaxClients

\* serial_monitor.py: pH in thousandths
PhStart == 6500
PhLow == 4000
PhHigh == 9000
TrendBound == 50
NoiseBound == 20
DurationMin == 10
DurationMax == 30

\* the module's mock_data as the import leaves it
MonitorStart ==
    /\ mock_data = [ph |-> PhStart, ph_trend |-> 0, trend_duration |-> 0]
    /\ mock_data_str = <<>>
    /\ mon_pc = "off" /\ mon_ser = "None" /\ retries = 0 /\ mon_calls = <<>>
    /\ mon_device = <<>> /\ mon_logged = 0 /\ mon_emitted = 0

\* nothing waits at the port and initialize_serial is not called on its own
PortIdle ==
    /\ in_waiting = <<>> /\ initial_data = <<>>
    /\ port = [exists |-> FALSE, cmds |-> {}, opens |-> <<>>]
    /\ init_calls = <<>> /\ init_returned = "off"

ParseIdle ==
    /\ kind = "none" /\ variant = "none" /\ desc = NoDesc /\ rd = NoReading
    /\ lines = <<>> /\ done = 0 /\ forwarded = <<>> /\ warned = 0

ServerIdle ==
    /\ MOCK_DATA = FALSE /\ hs_ser = "None" /\ connected_clients = {}
    /\ hpc = [h \in Handles |-> "new"]
    /\ peerOpen = [h \in Handles |-> TRUE]
    /\ failedSend = [h \in Handles |-> FALSE]
    /\ received = [h \in Handles |-> <<>>]
    /\ taskpc = "off" /\ taskError = "none" /\ message = <<>>
    /\ iterStart = {} /\ iterVisited = {} /\ websockets_to_remove = {}
    /\ buffer = <<>> /\ pendingLines = <<>> /\ device = <<>> /\ passNo = 0
    /\ data = <<>> /\ stalled = {}
    /\ walk = [ph |-> 65, temp |-> 230, tds |-> 650, water_idx |-> 1]

NoResponse == [status |-> "none"]

SPIdle ==
    /\ settings_MOCK_DATA = FALSE /\ sp_ser = "None" /\ sp_pc = "off"
    /\ reconnect_attempts = 0 /\ no_data_warning_sent = FALSE
    /\ silence = 0 /\ sp_gap = 0 /\ sp_buffer = <<>> /\ sp_reads = 0
    /\ sp_device = <<>>
    /\ sp_path = "none" /\ sp_event = "none"
    /\ api_response = NoResponse /\ api_code = 0 /\ api_count = 0

----------------------------------------------------------------------------
(* The body of "for line in lines" in the two read loops *)

\* buffer.split('\n') has produced the device line and, after it, the documented one
DeviceLines ==
    /\ kind = "wire" /\ done = 0 /\ lines = <<>>
    /\ lines' = <<Render(desc), GoodLine>>
    /\ UNCHANGED <<kind, variant, desc, rd, done, forwarded, warned>>
    /\ UNCHANGED <<serverVars, spVars, httpVars, monVars, portVars>>

\* serial_monitor.generate_mock_data has returned its line
GenerateLine ==
    /\ kind = "mock" /\ done = 0 /\ lines = <<>>
    /\ lines' = <<FormatMockData(rd)>>
    /\ UNCHANGED <<kind, variant, desc, rd, done, forwarded, warned>>
    /\ UNCHANGED <<serverVars, spVars, httpVars, monVars, portVars>>

\* one iteration: strip, skip an empty line, parse, forward or warn
ProcessLine(parsed_data) ==
    /\ lines' = Tail(lines)
    /\ done' = done + 1
    /\ IF Strip(lines[1]) = <<>>
       THEN UNCHANGED <<forwarded, warned>>
       ELSE IF IsComplete(parsed_data)
       THEN forwarded' = Append(forwarded, JsonDumps(parsed_data)) /\ UNCHANGED warned
       ELSE warned' = warned + 1 /\ UNCHANGED forwarded
    /\ UNCHANGED <<kind, variant, desc, rd>>
    /\ UNCHANGED <<serverVars, spVars, httpVars, monVars, portVars>>

\* hydroponics_server.read_serial (the message is what the clients are sent)
ProcessLineHS ==
    /\ variant = "hs" /\ lines # <<>>
    /\ ProcessLine(ParseLineHS(Strip(lines[1])))

\* serial_processor.read_serial (the message is what "Parsed data" logs)
ProcessLineSP ==
    /\ variant = "sp" /\ lines # <<>>
    /\ ProcessLine(ParseLineSP(Strip(lines[1])))

InitParse ==
    /\ PortIdle
    /\ variant \in {"hs", "sp"}
    /\ \/ kind = "wire" /\ desc \in Descs /\ rd = NoReading
       \/ kind = "mock" /\ desc = NoDesc /\ rd \in Readings
    /\ lines = <<>> /\ done = 0 /\ forwarded = <<>> /\ warned = 0
    /\ ServerIdle
    /\ SPIdle
    /\ MonitorStart

NextParse == DeviceLines \/ GenerateLine \/ ProcessLineHS \/ ProcessLineSP

SpecParse == InitParse /\ [][NextParse]_vars

----------------------------------------------------------------------------
(* What a client reads back from a message *)

Member(msg, k) == msg[CHOOSE i \in 1..Len(msg) : msg[i][1] = k][2]
MemberNames(msg) == {msg[i][1] : i \in 1..Len(msg)}
FourFields == {"ph", "temperature", "waterLevel", "tds"}
IsNumber(j, d) == j.t = "number" /\ j.m = d.m /\ j.e = d.e
IsInteger(j, n) == j.t = "integer" /\ j.n = n
IsString(j, str) == j.t = "string" /\ j.s = str
IsStringUpToCase(j, str) == j.t = "string" /\ StrLower(j.s) = StrLower(str)
IsFourFieldObject(msg) == Len(msg) = 4 /\ MemberNames(msg) = FourFields

WellFormed(d) ==
    /\ d.ph.present /\ d.temp.present /\ d.water.present /\ d.tds.present
    /\ d.ph.ok /\ d.temp.ok /\ d.tds.ok

\* a required field is missing or its numeric value is unparsable
Deficient(d) ==
    \/ ~d.ph.present \/ ~d.temp.present \/ ~d.water.present \/ ~d.tds.present
    \/ ~d.ph.ok \/ ~d.temp.ok \/ ~d.tds.ok

C6_DeficientLineDropped ==
    (kind = "wire" /\ Deficient(desc)) =>
        /\ done >= 1 => (warned = IF Render(desc) = <<>> THEN 0 ELSE 1)
        /\ done = 1 => forwarded = <<>>
        /\ done = 2 =>
              /\ Len(forwarded) = 1 /\ lines = <<>>
              /\ IsFourFieldObject(forwarded[1])
              /\ IsNumber(Member(forwarded[1], "ph"), Dec(62, 1))
              /\ IsInteger(Member(forwarded[1], "tds"), 652)

C6_Witness ==
    /\ kind = "wire" /\ variant = "hs" /\ done = 2
    /\ desc.ph.present /\ desc.ph.txt = <<"a","b","c">>
    /\ desc.temp.present /\ desc.temp.ok /\ desc.water.present
    /\ desc.tds.present /\ desc.tds.ok
    /\ warned = 1 /\ Len(forwarded) = 1

\* C7: a reading whose ph and temperature have at most two decimals, written
\* in the wire format the way the generator writes it and parsed again, gives
\* a reading equal to the one written.
C7_RoundTrip ==
    (kind = "mock" /\ done = 1) =>
        /\ Len(forwarded) = 1 /\ warned = 0
        /\ IsFourFieldObject(forwarded[1])
        /\ IsNumber(Member(forwarded[1], "ph"), rd.ph)
        /\ IsNumber(Member(forwarded[1], "temperature"), rd.temperature)
        /\ IsString(Member(forwarded[1], "waterLevel"), rd.water)
        /\ IsInteger(Member(forwarded[1], "tds"), rd.tds)

C7_Witness ==
    /\ kind = "mock" /\ done = 1 /\ variant = "sp"
    /\ rd.ph = Dec(625, 2) /\ rd.temperature = Dec(2005, 2) /\ rd.tds = 1500
    /\ Len(forwarded) = 1

----------------------------------------------------------------------------
(* hydroponics_server.py: start-up *)

\* the mutant of Startup: the port is opened and its input buffer left as it is
StartupNoFlush ==
    /\ taskpc = "boot"
    /\ \E opened \in BOOLEAN :
          IF MOCK_DATA
          THEN /\ hs_ser' = "None"
               /\ UNCHANGED <<MOCK_DATA, device, in_waiting, initial_data>>
          ELSE IF opened
          THEN /\ hs_ser' = "open" /\ UNCHANGED MOCK_DATA
               /\ UNCHANGED <<in_waiting, initial_data>>
               /\ device' \in Transmissions
          ELSE /\ hs_ser' = "None" /\ MOCK_DATA' = TRUE
               /\ UNCHANGED <<device, in_waiting, initial_data>>
    /\ taskpc' = "start"
    /\ UNCHANGED <<connected_clients, hpc, peerOpen, failedSend, received, taskError,
                   message, iterStart, iterVisited, websockets_to_remove, buffer,
                   pendingLines, passNo>>
    /\ UNCHANGED <<data, walk, stalled, parseVars, spVars, httpVars, monVars>>
    /\ UNCHANGED <<port, init_calls, init_returned>>

\* Module level code: with MOCK_DATA unset the port is opened and what waits
\* in its input buffer is read and logged; the chunks read_serial will find
\* are the ones that arrive afterwards.  A failed open turns MOCK_DATA on.
\* main() then serves and creates the read_serial task.
Startup ==
    /\ taskpc = "boot"
    /\ \E opened \in BOOLEAN :
          IF MOCK_DATA
          THEN /\ hs_ser' = "None"
               /\ UNCHANGED <<MOCK_DATA, device, in_waiting, initial_data>>
          ELSE IF opened
          THEN /\ hs_ser' = "open" /\ UNCHANGED MOCK_DATA
               /\ initial_data' = in_waiting /\ in_waiting' = <<>>
               /\ device' \in Transmissions
          ELSE /\ hs_ser' = "None" /\ MOCK_DATA' = TRUE
               /\ UNCHANGED <<device, in_waiting, initial_data>>
    /\ taskpc' = "start"
    /\ UNCHANGED <<connected_clients, hpc, peerOpen, failedSend, received, taskError,
                   message, iterStart, iterVisited, websockets_to_remove, buffer,
                   pendingLines, passNo>>
    /\ UNCHANGED <<data, walk, stalled, parseVars, spVars, httpVars, monVars>>
    /\ UNCHANGED <<port, init_calls, init_returned>>

\* the mutant of ReadSerialStart: the flag is not looked at
ReadSerialStartIgnoresFlag ==
    /\ taskpc = "start"
    /\ taskpc' = "serial_sleep"
    /\ UNCHANGED <<MOCK_DATA, hs_ser, connected_clients, hpc, peerOpen, failedSend,
                   received, taskError, message, iterStart, iterVisited,
                   websockets_to_remove, buffer, pendingLines, device, passNo>>
    /\ UNCHANGED <<data, walk, stalled, parseVars, spVars, httpVars, monVars, portVars>>

\* read_serial is entered: it delegates to generate_mock_data or starts its loop
ReadSerialStart ==
    /\ taskpc = "start"
    /\ taskpc' = IF MOCK_DATA THEN "mock_sleep" ELSE "serial_sleep"
    /\ UNCHANGED <<MOCK_DATA, hs_ser, connected_clients, hpc, peerOpen, failedSend,
                   received, taskError, message, iterStart, iterVisited,
                   websockets_to_remove, buffer, pendingLines, device, passNo>>
    /\ UNCHANGED <<data, walk, stalled, parseVars, spVars, httpVars, monVars, portVars>>

----------------------------------------------------------------------------
(* hydroponics_server.websocket_handler, one per connection *)

Serving == taskpc # "off" /\ taskpc # "boot"

\* a peer connects: the handler adds its websocket to connected_clients
Connect(h) ==
    /\ Serving /\ hpc[h] = "new"
    /\ \A g \in Handles : g < h => hpc[g] # "new"
    /\ connected_clients' = connected_clients \cup {h}
    /\ hpc' = [hpc EXCEPT ![h] = "initial"]
    /\ UNCHANGED <<MOCK_DATA, hs_ser, peerOpen, failedSend, received, taskpc, taskError,
                   message, iterStart, iterVisited, websockets_to_remove, buffer,
                   pendingLines, device, passNo>>
    /\ UNCHANGED <<data, walk, stalled, parseVars, spVars, httpVars, monVars, portVars>>

\* await websocket.send(initial_data): a failure is logged and the handler goes on
SendInitial(h) ==
    /\ hpc[h] = "initial" /\ h \notin stalled
    /\ hpc' = [hpc EXCEPT ![h] = "recv"]
    /\ failedSend' = [failedSend EXCEPT ![h] = @ \/ ~peerOpen[h]]
    /\ UNCHANGED <<MOCK_DATA, hs_ser, connected_clients, peerOpen, received, taskpc,
                   taskError, message, iterStart, iterVisited, websockets_to_remove,
                   buffer, pendingLines, device, passNo>>
    /\ UNCHANGED <<data, walk, stalled, parseVars, spVars, httpVars, monVars, portVars>>

\* the mutant of HandlerExit: the finally block forgets the removal
HandlerExitKeepsHandle(h) ==
    /\ hpc[h] = "recv" /\ ~peerOpen[h]
    /\ hpc' = [hpc EXCEPT ![h] = "closed"]
    /\ UNCHANGED <<MOCK_DATA, hs_ser, connected_clients, peerOpen, failedSend, received,
                   taskpc, taskError, message, iterStart, iterVisited,
                   websockets_to_remove, buffer, pendingLines, device, passNo>>
    /\ UNCHANGED <<data, walk, stalled, parseVars, spVars, httpVars, monVars, portVars>>

\* the receive loop ends (the peer closed, ConnectionClosed or another
\* exception): finally removes the websocket if it is still in the set
HandlerExit(h) ==
    /\ hpc[h] = "recv" /\ ~peerOpen[h]
    /\ hpc' = [hpc EXCEPT ![h] = "closed"]
    /\ connected_clients' = connected_clients \ {h}
    /\ UNCHANGED <<MOCK_DATA, hs_ser, peerOpen, failedSend, received, taskpc, taskError,
                   message, iterStart, iterVisited, websockets_to_remove, buffer,
                   pendingLines, device, passNo>>
    /\ UNCHANGED <<data, walk, stalled, parseVars, spVars, httpVars, monVars, portVars>>

\* the peer goes away: from now on every send to it raises
PeerClose(h) ==
    /\ hpc[h] \in {"initial", "recv"} /\ peerOpen[h] /\ h \notin stalled
    /\ peerOpen' = [peerOpen EXCEPT ![h] = FALSE]
    /\ UNCHANGED <<MOCK_DATA, hs_ser, connected_clients, hpc, failedSend, received,
                   taskpc, taskError, message, iterStart, iterVisited,
                   websockets_to_remove, buffer, pendingLines, device, passNo>>
    /\ UNCHANGED <<data, walk, stalled, parseVars, spVars, httpVars, monVars, portVars>>

----------------------------------------------------------------------------
(* The delivery pass: "for client in connected_clients: await client.send" *)

InPass == taskpc \in {"mock_pass", "serial_pass"}

\* the mutant of Send: a successful send is made twice
SendTwice(c, n, msg, removeSoFar) ==
    IF c \in stalled
    THEN /\ websockets_to_remove' = removeSoFar
         /\ UNCHANGED <<failedSend, received>>
    ELSE IF peerOpen[c]
    THEN /\ received' = [received EXCEPT ![c] = @ \o <<[n |-> n, msg |-> msg],
                                                       [n |-> n, msg |-> msg]>>]
         /\ websockets_to_remove' = removeSoFar
         /\ UNCHANGED failedSend
    ELSE /\ websockets_to_remove' = removeSoFar \cup {c}
         /\ failedSend' = [failedSend EXCEPT ![c] = TRUE]
         /\ UNCHANGED received

\* await client.send(message) inside try/except: a failure adds the client
\* to websockets_to_remove (removeSoFar is the set before this send); a send
\* to a stalled connection stays suspended at the await
Send(c, n, msg, removeSoFar) ==
    IF c \in stalled
    THEN /\ websockets_to_remove' = removeSoFar
         /\ UNCHANGED <<failedSend, received>>
    ELSE IF peerOpen[c]
    THEN /\ received' = [received EXCEPT ![c] = Append(@, [n |-> n, msg |-> msg])]
         /\ websockets_to_remove' = removeSoFar
         /\ UNCHANGED failedSend
    ELSE /\ websockets_to_remove' = removeSoFar \cup {c}
         /\ failedSend' = [failedSend EXCEPT ![c] = TRUE]
         /\ UNCHANGED received

\* the for loop takes its iterator over cc and makes its first send
BeginPass(msg, cc) ==
    /\ passNo' = passNo + 1
    /\ message' = msg
    /\ iterStart' = cc
    /\ \E c \in cc :
          /\ iterVisited' = {c}
          /\ Send(c, passNo + 1, msg, {})

\* The set iterator compares the set's size with the size it started
\* with on every step, the step after the last element included.
SetChangedSize == Cardinality(connected_clients) # Cardinality(iterStart)

\* elements the iterator has still to yield: those of the start that are
\* left in the set (a client added since may or may not be yielded)
MustVisit == (iterStart \ iterVisited) \cap connected_clients

\* the pass is suspended for good at the send to a stalled connection
Blocked == InPass /\ iterVisited \cap stalled # {}

\* the mutant of NextSend: a client whose send failed is removed at once
NextSendRemovesAtOnce ==
    /\ InPass /\ ~Blocked /\ ~SetChangedSize
    /\ \E c \in connected_clients \ iterVisited :
          /\ iterVisited' = iterVisited \cup {c}
          /\ Send(c, passNo, message, websockets_to_remove)
          /\ connected_clients' = IF peerOpen[c] THEN connected_clients
                                  ELSE connected_clients \ {c}
    /\ UNCHANGED <<MOCK_DATA, hs_ser, hpc, peerOpen, taskpc,
                   taskError, message, iterStart, buffer, pendingLines, device,
                   passNo>>
    /\ UNCHANGED <<data, walk, stalled, parseVars, spVars, httpVars, monVars, portVars>>

\* the next client is taken from the iterator and sent the message
NextSend ==
    /\ InPass /\ ~Blocked /\ ~SetChangedSize
    /\ \E c \in connected_clients \ iterVisited :
          /\ iterVisited' = iterVisited \cup {c}
          /\ Send(c, passNo, message, websockets_to_remove)
    /\ UNCHANGED <<MOCK_DATA, hs_ser, connected_clients, hpc, peerOpen, taskpc,
                   taskError, message, iterStart, buffer, pendingLines, device,
                   passNo>>
    /\ UNCHANGED <<data, walk, stalled, parseVars, spVars, httpVars, monVars, portVars>>

\* "RuntimeError: Set changed size during iteration" inside generate_mock_data:
\* nothing catches it, the task ends
IterationRaisesMock ==
    /\ taskpc = "mock_pass" /\ ~Blocked /\ SetChangedSize
    /\ taskpc' = "dead"
    /\ taskError' = IF Cardinality(connected_clients) > Cardinality(iterStart)
                    THEN "SetGrew" ELSE "SetShrank"
    /\ UNCHANGED <<MOCK_DATA, hs_ser, connected_clients, hpc, peerOpen, failedSend,
                   received, message, iterStart, iterVisited, websockets_to_remove,
                   buffer, pendingLines, device, passNo>>
    /\ UNCHANGED <<data, walk, stalled, parseVars, spVars, httpVars, monVars, portVars>>

\* the same error inside read_serial: the except of the read block logs it,
\* the rest of the chunk's lines is dropped and the loop sleeps
IterationRaisesSerial ==
    /\ taskpc = "serial_pass" /\ ~Blocked /\ SetChangedSize
    /\ taskpc' = "serial_sleep"
    /\ taskError' = IF Cardinality(connected_clients) > Cardinality(iterStart)
                    THEN "SetGrew" ELSE "SetShrank"
    /\ pendingLines' = <<>>
    /\ UNCHANGED <<MOCK_DATA, hs_ser, connected_clients, hpc, peerOpen, failedSend,
                   received, message, iterStart, iterVisited, websockets_to_remove,
                   buffer, device, passNo>>
    /\ UNCHANGED <<data, walk, stalled, parseVars, spVars, httpVars, monVars, portVars>>

\* the iterator is exhausted in generate_mock_data: the failed clients are
\* removed in one step and the loop sleeps two seconds
EndPassMock ==
    /\ taskpc = "mock_pass" /\ ~Blocked /\ ~SetChangedSize /\ MustVisit = {}
    /\ connected_clients' = connected_clients \ websockets_to_remove
    /\ taskpc' = "mock_sleep"
    /\ UNCHANGED <<MOCK_DATA, hs_ser, hpc, peerOpen, failedSend, received, taskError,
                   message, iterStart, iterVisited, websockets_to_remove, buffer,
                   pendingLines, device, passNo>>
    /\ UNCHANGED <<data, walk, stalled, parseVars, spVars, httpVars, monVars, portVars>>

----------------------------------------------------------------------------
(* hydroponics_server.generate_mock_data *)

Medium == <<"m","e","d","i","u","m">>

\* data = {"ph": round(ph, 1), "temperature": round(temp, 1),
\*         "waterLevel": water_levels[water_idx], "tds": int(tds)}
\* Two readings of the first turns; MockSkip and MockCycle take the turn's
\* reading from them, MockTurn follows the locals the readings are built from
MockData ==
    {<<<<"ph", Dec(65, 1)>>, <<"temperature", Dec(23, 0)>>,
       <<"waterLevel", Medium>>, <<"tds", 650>>>>,
     <<<<"ph", Dec(64, 1)>>, <<"temperature", Dec(232, 1)>>,
       <<"waterLevel", Medium>>, <<"tds", 661>>>>}

\* the mutant of MockSkip: a turn with no client ends the generator
MockSkipRaises ==
    /\ taskpc = "mock_sleep" /\ connected_clients = {}
    /\ data' \in MockData
    /\ taskpc' = "dead" /\ taskError' = "NoClients"
    /\ UNCHANGED <<MOCK_DATA, hs_ser, connected_clients, hpc, peerOpen, failedSend,
                   received, message, iterStart, iterVisited,
                   websockets_to_remove, buffer, pendingLines, device, passNo>>
    /\ UNCHANGED <<walk, stalled, parseVars, spVars, httpVars, monVars, portVars>>

\* one turn of "while True" with no client connected: the reading is built,
\* "No clients connected, skipping mock data send" is logged, the loop sleeps
MockSkip ==
    /\ taskpc = "mock_sleep" /\ connected_clients = {}
    /\ data' \in MockData
    /\ UNCHANGED <<MOCK_DATA, hs_ser, connected_clients, hpc, peerOpen, failedSend,
                   received, taskpc, taskError, message, iterStart, iterVisited,
                   websockets_to_remove, buffer, pendingLines, device, passNo>>
    /\ UNCHANGED <<walk, stalled, parseVars, spVars, httpVars, monVars, portVars>>

\* one turn of "while True" with clients connected: the reading is built and
\* its delivery pass begins
MockCycle ==
    /\ taskpc = "mock_sleep" /\ passNo < MaxPasses
    /\ connected_clients # {}
    /\ data' \in MockData
    /\ BeginPass(JsonDumps(data'), connected_clients)
    /\ taskpc' = "mock_pass"
    /\ UNCHANGED <<MOCK_DATA, hs_ser, connected_clients, hpc, peerOpen, taskError,
                   buffer, pendingLines, device>>
    /\ UNCHANGED <<walk, stalled, parseVars, spVars, httpVars, monVars, portVars>>

\* one turn of "while True" with the locals followed: each of ph, temp and
\* tds moves by a draw and is held in [0, 14], [10, 40] and [0, 1200];
\* water_idx moves by a choice of -1, 0 or 1 modulo 3 (or stays when
\* random.random() is 0.05 or more); the reading is built from the rounded
\* values and delivered if a client is connected.  The draws followed are
\* -0.1, 0 and 0.1 for ph and 0 for temp and tds.
MockTurn ==
    /\ taskpc = "mock_sleep"
    /\ connected_clients = {} \/ passNo < MaxTurnPasses
    /\ \E d \in [ph : {-1, 0, 1}, temp : {0}, tds : {0}], choice \in {-1, 0, 1} :
          LET Hold(lo, hi, x) == IF x < lo THEN lo ELSE IF x > hi THEN hi ELSE x
              water_levels == <<<<"l","o","w">>, Medium, <<"h","i","g","h">>>>
              ph == Hold(0, 140, walk.ph + d.ph)
              temp == Hold(100, 400, walk.temp + d.temp)
              tds == Hold(0, 1200, walk.tds + d.tds)
              water_idx == (walk.water_idx + choice + 3) % 3
          IN  /\ walk' = [ph |-> ph, temp |-> temp, tds |-> tds, water_idx |-> water_idx]
              /\ data' = <<<<"ph", Normalize(ph, 1)>>, <<"temperature", Normalize(temp, 1)>>,
                            <<"waterLevel", water_levels[water_idx + 1]>>, <<"tds", tds>>>>
    /\ IF connected_clients = {}
       THEN UNCHANGED <<failedSend, received, taskpc, message, iterStart, iterVisited,
                        websockets_to_remove, passNo>>
       ELSE BeginPass(JsonDumps(data'), connected_clients) /\ taskpc' = "mock_pass"
    /\ UNCHANGED <<MOCK_DATA, hs_ser, connected_clients, hpc, peerOpen, taskError,
                   buffer, pendingLines, device>>
    /\ UNCHANGED <<stalled, parseVars, spVars, httpVars, monVars, portVars>>

----------------------------------------------------------------------------
(* hydroponics_server.read_serial *)

Deliverable(line) == Strip(line) # <<>> /\ IsComplete(ParseLineHS(Strip(line)))

\* "for line in lines" up to the first line that is sent: empty and incomplete
\* lines are skipped, and with no client connected nothing is sent at all
RECURSIVE SkipToDeliverable(_, _)
SkipToDeliverable(ls, cc) ==
    IF ls = <<>> \/ cc = {} THEN <<>>
    ELSE IF Deliverable(ls[1]) THEN ls
    ELSE SkipToDeliverable(Tail(ls), cc)

\* the for loop goes on over ls with the clients cc: it begins the delivery of
\* the next complete line, or runs out of lines and sleeps
ContinueLines(ls, cc) ==
    LET rest == SkipToDeliverable(ls, cc)
    IN  IF rest = <<>>
        THEN /\ taskpc' = "serial_sleep" /\ pendingLines' = <<>>
             /\ UNCHANGED <<failedSend, received, message, iterStart, iterVisited,
                            websockets_to_remove, passNo>>
        ELSE /\ taskpc' = "serial_pass" /\ pendingLines' = rest
             /\ BeginPass(JsonDumps(ParseLineHS(Strip(rest[1]))), cc)

\* ser.in_waiting > 0: the bytes are read, decoded, appended to the buffer and
\* split; the last piece stays in the buffer.  A decode error is caught by the
\* except of the read block, which only logs it.
SerialRead ==
    /\ taskpc = "serial_sleep" /\ hs_ser = "open" /\ device # <<>>
    /\ device' = Tail(device)
    /\ LET chunk == Head(device)
       IN IF Decodable(chunk)
          THEN LET pieces == Split(buffer \o Decode(chunk), "\n")
               IN  /\ buffer' = pieces[Len(pieces)]
                   /\ ContinueLines(SubSeq(pieces, 1, Len(pieces) - 1), connected_clients)
                   /\ UNCHANGED taskError
          ELSE /\ taskError' = "UnicodeDecodeError"
               /\ UNCHANGED <<buffer, taskpc, pendingLines, failedSend, received, message,
                              iterStart, iterVisited, websockets_to_remove, passNo>>
    /\ UNCHANGED <<MOCK_DATA, hs_ser, connected_clients, hpc, peerOpen>>
    /\ UNCHANGED <<data, walk, stalled, parseVars, spVars, httpVars, monVars, portVars>>

\* "if ser and ser.in_waiting > 0" stands outside the try: when the status
\* check raises (the device was unplugged) the exception leaves read_serial
SerialStatusRaises ==
    /\ taskpc = "serial_sleep" /\ hs_ser = "open"
    /\ taskpc' = "dead"
    /\ taskError' = "SerialStatus"
    /\ UNCHANGED <<MOCK_DATA, hs_ser, connected_clients, hpc, peerOpen, failedSend,
                   received, message, iterStart, iterVisited, websockets_to_remove,
                   buffer, pendingLines, device, passNo>>
    /\ UNCHANGED <<data, walk, stalled, parseVars, spVars, httpVars, monVars, portVars>>

\* the iterator is exhausted in read_serial: the failed clients are removed in
\* one step and the for loop over the chunk's lines goes on
EndPassSerial ==
    /\ taskpc = "serial_pass" /\ ~Blocked /\ ~SetChangedSize /\ MustVisit = {}
    /\ connected_clients' = connected_clients \ websockets_to_remove
    /\ ContinueLines(Tail(pendingLines), connected_clients \ websockets_to_remove)
    /\ UNCHANGED <<MOCK_DATA, hs_ser, hpc, peerOpen, taskError, buffer, device>>
    /\ UNCHANGED <<data, walk, stalled, parseVars, spVars, httpVars, monVars, portVars>>

----------------------------------------------------------------------------
(* The server as a whole *)

Init ==
    /\ PortIdle
    /\ ParseIdle
    /\ SPIdle
    /\ MonitorStart
    /\ MOCK_DATA \in BOOLEAN /\ hs_ser = "None" /\ connected_clients = {}
    /\ hpc = [h \in Handles |-> "new"]
    /\ peerOpen = [h \in Handles |-> TRUE]
    /\ failedSend = [h \in Handles |-> FALSE]
    /\ received = [h \in Handles |-> <<>>]
    /\ taskpc = "boot" /\ taskError = "none" /\ message = <<>>
    /\ iterStart = {} /\ iterVisited = {} /\ websockets_to_remove = {}
    /\ buffer = <<>> /\ pendingLines = <<>> /\ device = <<>> /\ passNo = 0
    /\ data = <<>> /\ stalled = {}
    /\ walk = [ph |-> 65, temp |-> 230, tds |-> 650, water_idx |-> 1]

Next ==
    \/ Startup
    \/ ReadSerialStart
    \/ \E h \in Handles : Connect(h)
    \/ \E h \in Handles : SendInitial(h)
    \/ \E h \in Handles : HandlerExit(h)
    \/ \E h \in Handles : PeerClose(h)
    \/ MockSkip
    \/ MockCycle
    \/ NextSend
    \/ IterationRaisesMock
    \/ IterationRaisesSerial
    \/ EndPassMock
    \/ SerialRead
    \/ SerialStatusRaises
    \/ EndPassSerial

Spec == Init /\ [][Next]_vars

----------------------------------------------------------------------------
(* Claims about the registry and the delivery pass *)

PassLeft == InPass /\ (taskpc' \notin {"mock_pass", "serial_pass"} \/ passNo' # passNo)

\* C1: in a delivery pass a failed send to one subscriber does not stop the
\* pass: when a pass in which a send failed is over, every other subscriber
\* that was registered when it began (and is still registered) has been sent
\* the message, and the pass has removed exactly the subscribers whose send
\* failed.
C1_FailedSendDoesNotStopPass ==
    [][(PassLeft /\ websockets_to_remove # {}) =>
          /\ MustVisit = {}
          /\ connected_clients' = connected_clients \ websockets_to_remove]_vars

\* C2: registering a subscriber while a delivery pass is suspended at an await
\* never raises in, or ends, the broadcasting task, and the new subscriber is
\* in connected_clients right after its registration.
C2_RegistrationDuringPassIsSafe ==
    [][/\ \A h \in Handles :
             (hpc[h] = "new" /\ hpc'[h] # "new") => h \in connected_clients'
       /\ taskError' # "SetGrew"]_vars

Live(h) == hpc[h] \in {"initial", "recv"}

\* C3 as stated: connected_clients is exactly the set of handles that have
\* connected, to which no delivery attempt has failed and whose disconnect
\* has not been observed.
C3_RegistryIsExactlyLiveUnfailed ==
    \A h \in Handles : h \in connected_clients <=> (Live(h) /\ ~failedSend[h])

\* C3 as amended: connected_clients holds only handles that have connected
\* and whose disconnect has not been observed, and it holds every such handle
\* to which no delivery attempt has failed; a handle to which a delivery
\* failed may stay in the set until the pass ends or its handler returns.
C3_RegistryWithinLive ==
    \A h \in Handles :
        /\ h \in connected_clients => Live(h)
        /\ (Live(h) /\ ~failedSend[h]) => h \in connected_clients

C3_Witness ==
    \E h, g \in Handles :
        /\ failedSend[h] /\ h \in connected_clients /\ hpc[h] = "recv"
        /\ failedSend[g] /\ g \notin connected_clients /\ hpc[g] = "recv"

DescGood ==
    [ph |-> Tok(<<"p","H">>, <<"6",".","2","0">>, TRUE, Dec(62, 1)),
     temp |-> Tok(<<"t","e","m","p">>, <<"2","3",".","2","0">>, TRUE, Dec(232, 1)),
     water |-> Tok(<<"w","a","t","e","r">>, <<"m","e","d","i","u","m">>, TRUE, <<"m","e","d","i","u","m">>),
     tds |-> Tok(<<"t","d","s">>, <<"6","5","2">>, TRUE, 652), extra |-> <<>>, rev |-> FALSE]

DescReversed ==
    [ph |-> Tok(<<"p","H">>, <<"7">>, TRUE, Dec(7, 0)),
     temp |-> Tok(<<"t","e","m","p">>, <<"-","1",".","5">>, TRUE, Dec(-15, 1)),
     water |-> Tok(<<"w","a","t","e","r">>, <<"L","O","W">>, TRUE, <<"L","O","W">>),
     tds |-> Tok(<<"T","D","S">>, <<"6","5","2">>, TRUE, 652), extra |-> <<>>, rev |-> TRUE]

ServerDescs == {DescGood, DescReversed}

IsReadingOf(msg, d) ==
    /\ IsFourFieldObject(msg)
    /\ IsNumber(Member(msg, "ph"), d.ph.val)
    /\ IsNumber(Member(msg, "temperature"), d.temp.val)
    /\ IsString(Member(msg, "waterLevel"), d.water.val)
    /\ IsInteger(Member(msg, "tds"), d.tds.val)

SentInPass(h, n) == {i \in 1..Len(received[h]) : received[h][i].n = n}

\* C4: in read_serial, while a reading is being delivered, the message is the
\* JSON object of exactly the four fields of the reading parsed from the
\* current line, with the values of the line, and every subscriber the pass
\* has reached and whose send succeeded has been sent that message exactly
\* once; no subscriber is ever sent anything but such a four-field object.
C4_SubscribersGetTheReading ==
    /\ taskpc = "serial_pass" =>
          /\ IsFourFieldObject(message)
          /\ \A d \in ServerDescs :
                Strip(pendingLines[1]) = Render(d) => IsReadingOf(message, d)
          /\ \A h \in iterVisited \ websockets_to_remove :
                /\ Cardinality(SentInPass(h, passNo)) = 1
                /\ \A i \in SentInPass(h, passNo) : received[h][i].msg = message
    /\ ~MOCK_DATA =>
          \A h \in Handles : \A i \in 1..Len(received[h]) :
              IsFourFieldObject(received[h][i].msg)

C4_Witness ==
    /\ taskpc = "serial_pass"
    /\ Strip(pendingLines[1]) = Render(DescReversed)
    /\ Cardinality(iterVisited) = 2
    /\ Cardinality(websockets_to_remove) = 1
    /\ \E h \in iterVisited \ websockets_to_remove :
          IsReadingOf(received[h][Len(received[h])].msg, DescReversed)

CoreErrors == {"SerialStatus", "SerialRead", "UnicodeDecodeError", "ValueError",
               "SendFailure"}

\* C9: no exception raised by a serial status check or read, a decode, a
\* field parse or a subscriber send ends the acquisition task.
C9_NoCoreErrorEndsAcquisition ==
    taskpc = "dead" => taskError \notin CoreErrors

----------------------------------------------------------------------------
(* serial_processor.py: initialize_serial and read_serial.  Times are in    *)
(* tenths of a second.                                                     *)

max_retries == 5
retry_delay == 30
max_reconnect_attempts == 10
reconnect_delay == 50
ExtendedWait == 600
WarnAfter == 150
StaleAfter == 300
ErrorStaleAfter == 200
ErrorPause == 10
PollInterval == 1

Saturate(t) == IF t > MaxSilence THEN MaxSilence ELSE t

\* what initialize_serial is called on: whether the device path exists, the
\* commands lsof names as holding the port, and how the successive
\* serial.Serial calls end: k of them raise SerialException and the next
\* succeeds, or the first raises something else
Ports ==
    [exists : BOOLEAN,
     cmds : SUBSET {"serial_monitor.py", "minicom"},
     opens : {[i \in 1..max_retries |-> IF i <= k THEN "SerialException" ELSE "ok"] :
                 k \in 0..max_retries}
               \cup {[i \in 1..max_retries |-> "Exception"]}]

\* lines 46-71, "while retries < max_retries": the loop from its turn number
\* n on, calls being the calls made so far.  A failed open sleeps retry_delay
\* only if a turn is left.
RECURSIVE OpenLoop(_, _, _)
OpenLoop(opens, n, calls) ==
    LET made == Append(calls, [call |-> "Serial", arg |-> 0])
    IN  IF n > max_retries THEN [ser |-> "None", calls |-> calls]
        ELSE IF opens[n] = "ok" THEN [ser |-> "open", calls |-> made]
        ELSE IF opens[n] = "Exception" THEN [ser |-> "None", calls |-> made]
        ELSE IF n < max_retries
        THEN OpenLoop(opens, n + 1, Append(made, [call |-> "sleep", arg |-> retry_delay]))
        ELSE OpenLoop(opens, n + 1, made)

\* initialize_serial, lines 18-74: no call is made when the path does not
\* exist, or when the port is busy and no holder is serial_monitor.py
InitializeSerialCall(p) ==
    IF ~p.exists THEN [ser |-> "None", calls |-> <<>>]
    ELSE IF p.cmds # {} /\ "serial_monitor.py" \notin p.cmds
    THEN [ser |-> "None", calls |-> <<>>]
    ELSE OpenLoop(p.opens, 1, <<>>)

\* initialize_serial as read_serial sees it: what it returns and the time it
\* took.  None at once when the port is absent, busy or the open raises
\* something unexpected; the port after k failed opens, each followed by
\* time.sleep(retry_delay); None after max_retries failed opens
InitializeSerial ==
    LET RECURSIVE Took(_, _)
        Took(calls, i) == IF i = 0 THEN 0 ELSE calls[i].arg + Took(calls, i - 1)
    IN  {[ser |-> InitializeSerialCall(p).ser,
          took |-> Took(InitializeSerialCall(p).calls, Len(InitializeSerialCall(p).calls))] :
            p \in Ports}

\* the mutant of SpEntry: read_serial returns when its first attempt fails
SpEntryTriesOnce ==
    /\ sp_pc = "entry"
    /\ \E r \in (IF sp_ser = "open" THEN {[ser |-> "open", took |-> 0]}
                 ELSE InitializeSerial) :
          /\ sp_ser' = r.ser
          /\ sp_pc' = IF r.ser = "open" THEN "loop" ELSE "returned"
    /\ sp_path' = "entry" /\ sp_event' = "none"
    /\ sp_buffer' = <<>> /\ silence' = 0 /\ sp_gap' = 0
    /\ no_data_warning_sent' = FALSE /\ reconnect_attempts' = 0
    /\ UNCHANGED <<settings_MOCK_DATA, sp_reads, sp_device, api_response, api_code, api_count>>
    /\ UNCHANGED <<parseVars, serverVars, monVars, portVars>>

\* lines 81-96: without a connection read_serial tries every 30 seconds until
\* one opens, then sets up its locals
SpEntry ==
    /\ sp_pc = "entry"
    /\ \E r \in (IF sp_ser = "open" THEN {[ser |-> "open", took |-> 0]}
                 ELSE InitializeSerial) :
          /\ sp_ser' = r.ser
          /\ sp_pc' = IF r.ser = "open" THEN "loop" ELSE "entry"
    /\ sp_path' = "entry" /\ sp_event' = "none"
    /\ sp_buffer' = <<>> /\ silence' = 0 /\ sp_gap' = 0
    /\ no_data_warning_sent' = FALSE /\ reconnect_attempts' = 0
    /\ UNCHANGED <<settings_MOCK_DATA, sp_reads, sp_device, api_response, api_code, api_count>>
    /\ UNCHANGED <<parseVars, serverVars, monVars, portVars>>

\* the mutant of OnUnicodeDecodeError: the error is logged and the buffer kept
OnUnicodeDecodeErrorKeepsBuffer(gap, extra, att, warnedFlag) ==
    /\ sp_device # <<>> /\ ~Decodable(Head(sp_device))
    /\ sp_reads' = sp_reads + 1 /\ sp_device' = Tail(sp_device)
    /\ sp_event' = "UnicodeDecodeError"
    /\ silence' = Saturate(gap + extra + PollInterval)
    /\ no_data_warning_sent' = warnedFlag
    /\ sp_ser' = "open" /\ reconnect_attempts' = att
    /\ UNCHANGED sp_buffer

\* lines 141 and 226-228: ser.read(...).decode('utf-8') raises on the bytes it
\* has taken from the port, and except UnicodeDecodeError empties the buffer;
\* the port, the counter, the timer and the flag are left as they were
OnUnicodeDecodeError(gap, extra, att, warnedFlag) ==
    /\ sp_device # <<>> /\ ~Decodable(Head(sp_device))
    /\ sp_buffer' = <<>>
    /\ sp_reads' = sp_reads + 1 /\ sp_device' = Tail(sp_device)
    /\ sp_event' = "UnicodeDecodeError"
    /\ silence' = Saturate(gap + extra + PollInterval)
    /\ no_data_warning_sent' = warnedFlag
    /\ sp_ser' = "open" /\ reconnect_attempts' = att

\* the mutant of OnSerialException: the error is logged and the handle kept
OnSerialExceptionKeepsHandle(gap, extra, att, warnedFlag) ==
    /\ sp_event' = "SerialException"
    /\ sp_ser' = "open" /\ reconnect_attempts' = att
    /\ silence' = Saturate(gap + extra + ErrorPause + PollInterval)
    /\ no_data_warning_sent' = warnedFlag
    /\ UNCHANGED <<sp_buffer, sp_reads, sp_device>>

\* lines 214-225, except serial.SerialException: the port is closed and
\* dropped, and the turn sleeps a second more
OnSerialException(gap, extra, att, warnedFlag) ==
    /\ sp_event' = "SerialException"
    /\ sp_ser' = "None" /\ reconnect_attempts' = att
    /\ silence' = Saturate(gap + extra + ErrorPause + PollInterval)
    /\ no_data_warning_sent' = warnedFlag
    /\ UNCHANGED <<sp_buffer, sp_reads, sp_device>>

\* lines 138-241: the try block of one turn and the sleep that ends the turn.
\* gap is current_time - last_message_time as the block computes it, extra
\* the time the turn has spent since it took current_time, att and warnedFlag
\* the counter and the flag as the reconnect branch left them
TryBlock(gap, extra, att, warnedFlag) ==
    /\ sp_gap' = gap
    /\ \/ \* ser.in_waiting > 0 and the bytes decode
          /\ sp_device # <<>> /\ Decodable(Head(sp_device))
          /\ LET pieces == Split(sp_buffer \o Decode(Head(sp_device)), "\n")
             IN  sp_buffer' = pieces[Len(pieces)]
          /\ sp_reads' = sp_reads + 1 /\ sp_device' = Tail(sp_device)
          /\ sp_event' = "data"
          /\ silence' = Saturate(extra + PollInterval)
          /\ no_data_warning_sent' = FALSE
          /\ sp_ser' = "open" /\ reconnect_attempts' = att
       \/ OnUnicodeDecodeError(gap, extra, att, warnedFlag)
       \/ \* nothing is waiting: the warning, and inside it the reset
          /\ sp_event' = "quiet"
          /\ silence' = Saturate(gap + extra + PollInterval)
          /\ IF gap > WarnAfter /\ ~warnedFlag
             THEN /\ no_data_warning_sent' = TRUE
                  /\ IF gap > StaleAfter
                     THEN sp_ser' = "None" /\ reconnect_attempts' = 0
                     ELSE sp_ser' = "open" /\ reconnect_attempts' = att
             ELSE /\ no_data_warning_sent' = warnedFlag
                  /\ sp_ser' = "open" /\ reconnect_attempts' = att
          /\ UNCHANGED <<sp_buffer, sp_reads, sp_device>>
       \/ OnSerialException(gap, extra, att, warnedFlag)
       \/ \* any other exception: the port is dropped after 20 silent seconds
          /\ sp_event' = "Exception"
          /\ sp_ser' = IF gap > ErrorStaleAfter THEN "None" ELSE "open"
          /\ reconnect_attempts' = att
          /\ silence' = Saturate(gap + extra + PollInterval)
          /\ no_data_warning_sent' = warnedFlag
          /\ UNCHANGED <<sp_buffer, sp_reads, sp_device>>

\* the mutant of SpReconnect: a successful reconnect keeps the count
SpReconnectKeepsCount ==
    /\ sp_pc = "loop" /\ sp_ser = "None"
    /\ reconnect_attempts < max_reconnect_attempts
    /\ sp_path' = "reconnect"
    /\ \E r \in InitializeSerial :
          IF r.ser = "None"
          THEN /\ sp_ser' = "None"
               /\ reconnect_attempts' = reconnect_attempts + 1
               /\ silence' = Saturate(silence + r.took + reconnect_delay)
               /\ sp_event' = "none"
               /\ UNCHANGED <<no_data_warning_sent, sp_gap, sp_buffer, sp_reads, sp_device>>
          ELSE TryBlock(0, r.took, reconnect_attempts + 1, FALSE)
    /\ UNCHANGED <<settings_MOCK_DATA, sp_pc, api_response, api_code, api_count>>
    /\ UNCHANGED <<parseVars, serverVars, monVars, portVars>>

\* lines 102-124: no connection and attempts left.  A failed attempt counts,
\* sleeps reconnect_delay and starts the next turn; a successful one resets
\* the counter, the timer and the flag and goes on into the try block
SpReconnect ==
    /\ sp_pc = "loop" /\ sp_ser = "None"
    /\ reconnect_attempts < max_reconnect_attempts
    /\ sp_path' = "reconnect"
    /\ \E r \in InitializeSerial :
          IF r.ser = "None"
          THEN /\ sp_ser' = "None"
               /\ reconnect_attempts' = reconnect_attempts + 1
               /\ silence' = Saturate(silence + r.took + reconnect_delay)
               /\ sp_event' = "none"
               /\ UNCHANGED <<no_data_warning_sent, sp_gap, sp_buffer, sp_reads, sp_device>>
          ELSE TryBlock(0, r.took, 0, FALSE)
    /\ UNCHANGED <<settings_MOCK_DATA, sp_pc, api_response, api_code, api_count>>
    /\ UNCHANGED <<parseVars, serverVars, monVars, portVars>>

\* the mutant of SpExtended: exhausting the attempts switches the source to
\* synthetic data for good
SpExtendedFallsBack ==
    /\ sp_pc = "loop" /\ sp_ser = "None"
    /\ reconnect_attempts >= max_reconnect_attempts
    /\ sp_path' = "extended" /\ sp_event' = "none"
    /\ settings_MOCK_DATA' = TRUE
    /\ sp_pc' = "synthetic"
    /\ UNCHANGED <<sp_ser, reconnect_attempts, no_data_warning_sent, silence, sp_gap,
                   sp_buffer, sp_reads, sp_device, api_response, api_code, api_count>>
    /\ UNCHANGED <<parseVars, serverVars, monVars, portVars>>

\* lines 125-136: the attempts are used up.  The loop sleeps a minute, resets
\* the counter and tries again; on success it goes on into the try block with
\* the current_time, the timer and the flag it had before the sleep
SpExtended ==
    /\ sp_pc = "loop" /\ sp_ser = "None"
    /\ reconnect_attempts >= max_reconnect_attempts
    /\ sp_path' = "extended"
    /\ \E r \in InitializeSerial :
          IF r.ser = "None"
          THEN /\ sp_ser' = "None"
               /\ reconnect_attempts' = 0
               /\ silence' = Saturate(silence + ExtendedWait + r.took)
               /\ sp_event' = "none"
               /\ UNCHANGED <<no_data_warning_sent, sp_gap, sp_buffer, sp_reads, sp_device>>
          ELSE TryBlock(silence, ExtendedWait + r.took, 0, no_data_warning_sent)
    /\ UNCHANGED <<settings_MOCK_DATA, sp_pc, api_response, api_code, api_count>>
    /\ UNCHANGED <<parseVars, serverVars, monVars, portVars>>

\* a turn with the connection open: the try block alone
SpPoll ==
    /\ sp_pc = "loop" /\ sp_ser = "open"
    /\ sp_path' = "poll"
    /\ TryBlock(silence, 0, reconnect_attempts, no_data_warning_sent)
    /\ UNCHANGED <<settings_MOCK_DATA, sp_pc, api_response, api_code, api_count>>
    /\ UNCHANGED <<parseVars, serverVars, monVars, portVars>>

----------------------------------------------------------------------------
(* http_handler.py: GET /api/status *)

\* response_data, given what "docker ps" showed
\* the mutant of StatusResponse: the flag is overridden when the serial monitor
\* container is active, as websocket_handler does for its initial message
StatusResponseLocalFlag(serial_monitor_active) ==
    [status |-> "ok",
     clients |-> Cardinality(connected_clients),
     mockData |-> settings_MOCK_DATA \/ serial_monitor_active,
     serialMonitorActive |-> serial_monitor_active]

StatusResponse(serial_monitor_active) ==
    [status |-> "ok",
     clients |-> Cardinality(connected_clients),
     mockData |-> settings_MOCK_DATA,
     serialMonitorActive |-> serial_monitor_active]

\* the mutant of ApiStatus: the handler assigns the module's flag instead of
\* a local name
ApiStatusSetsFlag ==
    /\ sp_pc # "off" /\ api_count < MaxQueries
    /\ \E serial_monitor_active \in BOOLEAN :
          /\ api_response' = StatusResponse(serial_monitor_active)
          /\ settings_MOCK_DATA' = (settings_MOCK_DATA \/ serial_monitor_active)
    /\ api_code' = 200
    /\ api_count' = api_count + 1
    /\ UNCHANGED <<sp_ser, sp_pc, reconnect_attempts,
                   no_data_warning_sent, silence, sp_gap, sp_buffer, sp_reads,
                   sp_device, sp_path, sp_event>>
    /\ UNCHANGED <<parseVars, serverVars, monVars, portVars>>

ApiStatus ==
    /\ sp_pc # "off" /\ api_count < MaxQueries
    /\ \E serial_monitor_active \in BOOLEAN :
          api_response' = StatusResponse(serial_monitor_active)
    /\ api_code' = 200
    /\ api_count' = api_count + 1
    /\ UNCHANGED <<settings_MOCK_DATA, sp_ser, sp_pc, reconnect_attempts,
                   no_data_warning_sent, silence, sp_gap, sp_buffer, sp_reads,
                   sp_device, sp_path, sp_event>>
    /\ UNCHANGED <<parseVars, serverVars, monVars, portVars>>

\* /health of http_handler.py: a plain text body
HealthBody == [text |-> "healthy"]

ApiHealth ==
    /\ sp_pc # "off"
    /\ api_response' = HealthBody
    /\ api_code' = 200
    /\ UNCHANGED api_count
    /\ UNCHANGED <<parseVars, serverVars, spVars, monVars, portVars>>

\* The entry point that starts the tasks of websocket_handler, http_handler
\* and serial_processor: the acquisition machine leaves Disconnected for
\* Connecting on startup only if synthetic mode is not forced, so read_serial
\* is started when settings.MOCK_DATA is false and a synthetic source otherwise
SelectSource == IF settings_MOCK_DATA THEN "synthetic" ELSE "entry"

InitSP ==
    /\ PortIdle
    /\ ParseIdle
    /\ ServerIdle
    /\ MonitorStart
    /\ settings_MOCK_DATA \in BOOLEAN
    /\ sp_ser \in {"None", "open"}
    /\ sp_pc = SelectSource
    /\ reconnect_attempts = 0 /\ no_data_warning_sent = FALSE
    /\ silence = 0 /\ sp_gap = 0 /\ sp_buffer = <<>> /\ sp_reads = 0
    /\ sp_device \in SpTransmissions
    /\ sp_path = "none" /\ sp_event = "none"
    /\ api_response = NoResponse /\ api_code = 0 /\ api_count = 0

NextSP == SpEntry \/ SpReconnect \/ SpExtended \/ SpPoll \/ ApiStatus

SpecSP == InitSP /\ [][NextSP]_vars

----------------------------------------------------------------------------
(* Claims about the reconnect policy and the staleness watchdog *)

Exhausted ==
    sp_pc = "loop" /\ sp_ser = "None" /\ reconnect_attempts >= max_reconnect_attempts

\* C8: once max_reconnect_attempts consecutive reconnects have failed, the
\* source is synthetic and a /api/status query answered from then on reports
\* mockData true.
C8_ExhaustedAttemptsFallBackToSynthetic ==
    [][(Exhausted /\ api_count' # api_count) => api_response'.mockData = TRUE]_vars

\* C8 as amended: once max_reconnect_attempts consecutive reconnects have
\* failed, the loop's next turn resets the counter and tries the port again,
\* staying in the read loop; nothing the loop does changes settings.MOCK_DATA,
\* and every /api/status answer reports that configured value.
C8_ExhaustedAttemptsWaitAndRetry ==
    [][/\ settings_MOCK_DATA' = settings_MOCK_DATA
       /\ api_count' # api_count => api_response'.mockData = settings_MOCK_DATA
       /\ (Exhausted /\ api_count' = api_count) =>
             /\ sp_path' = "extended"
             /\ sp_pc' = "loop"
             /\ reconnect_attempts' = 0]_vars

C8_Witness ==
    /\ sp_path = "extended" /\ sp_pc = "loop"
    /\ sp_ser = "None" /\ reconnect_attempts = 0
    /\ api_count > 0 /\ api_response.mockData = FALSE

\* C10: the first turn of the loop that finds the connection open, nothing
\* waiting and more than 30 seconds gone since the last bytes (polling every
\* 0.1 second, a device silent since the loop began) drops the connection.
C10_StaleConnectionIsReset ==
    (/\ sp_path = "poll" /\ sp_event = "quiet" /\ sp_reads = 0
     /\ sp_gap = StaleAfter + PollInterval)
        => sp_ser = "None"

----------------------------------------------------------------------------
(* hydroponics_server.http_handler, and both servers' HTTP side together *)

\* data of /api/status (the time member is the clock's reading, which the
\* model does not follow)
HsStatusData ==
    [status |-> "running",
     mockData |-> MOCK_DATA,
     connectedClients |-> Cardinality(connected_clients),
     time |-> "isoformat"]

\* a GET of /health or / is answered "healthy", one of /api/status with data
HsHttpHandler ==
    /\ Serving /\ api_code = 0
    /\ \E path \in {"/health", "/api/status"} :
          IF path = "/api/status"
          THEN /\ api_response' = HsStatusData
               /\ api_count' = api_count + 1
          ELSE /\ api_response' = HealthBody
               /\ UNCHANGED api_count
    /\ api_code' = 200
    /\ UNCHANGED <<parseVars, serverVars, spVars, monVars, portVars>>

InitHttp == Init \/ InitSP

\* A run of hydroponics_server is followed up to the first request its HTTP
\* handler answers; the servers of serial_processor and http_handler.py are
\* followed through MaxQueries requests.
NextHttp ==
    \/ api_code = 0 /\ Next
    \/ HsHttpHandler
    \/ NextSP
    \/ ApiHealth

SpecHttp == InitHttp /\ [][NextHttp]_vars

----------------------------------------------------------------------------
(* Claims about the status queries *)

\* The source the acquisition machine is on: "synthetic" in (or ended inside)
\* generate_mock_data, "live" in (or ended inside) the serial loop, "none"
\* before read_serial is entered.
Mode ==
    IF taskpc # "off"
    THEN CASE taskpc \in {"mock_sleep", "mock_pass"} -> "synthetic"
           [] taskpc \in {"serial_sleep", "serial_pass"} -> "live"
           [] taskpc = "dead" -> IF taskError \in {"SetGrew", "SetShrank"}
                                 THEN "synthetic" ELSE "live"
           [] OTHER -> "none"
    ELSE CASE sp_pc = "synthetic" -> "synthetic"
           [] sp_pc \in {"entry", "loop"} -> "live"
           [] OTHER -> "none"

C12_StatusHasKeysAndCount ==
    [][api_count' # api_count =>
          /\ {"status", "connectedClients", "mockData"} \subseteq DOMAIN api_response'
          /\ api_response'.connectedClients = Cardinality(connected_clients)]_vars

\* C13: handling /api/status or /health changes neither connected_clients,
\* nor the serial handle, nor the parse buffer, nor the reconnect counter, nor
\* the source (live or synthetic) of either server.
C13_StatusQueriesChangeNothing ==
    [][httpVars' # httpVars =>
          /\ UNCHANGED <<connected_clients, hs_ser, buffer, MOCK_DATA>>
          /\ UNCHANGED <<sp_ser, sp_buffer, reconnect_attempts, settings_MOCK_DATA>>
          /\ Mode' = Mode]_vars

\* a status query has just been answered with two subscribers registered, the
\* port open and half a line in the buffer
C13_Witness ==
    /\ taskpc \in {"serial_sleep", "serial_pass"} /\ api_code = 200
    /\ "connectedClients" \in DOMAIN api_response
    /\ api_response.connectedClients = 2 /\ Cardinality(connected_clients) = 2
    /\ hs_ser = "open" /\ buffer # <<>>

----------------------------------------------------------------------------
(* Claims about the delivery of one reading *)

\* the chunk the serial loop is about to read completes a line with a reading
ChunkHasReading ==
    /\ device # <<>> /\ Decodable(Head(device))
    /\ LET pieces == Split(buffer \o Decode(Head(device)), "\n")
       IN  \E i \in 1..(Len(pieces) - 1) : Deliverable(pieces[i])

\* a producer's turn that has a reading to deliver and finds no subscriber
EmptyDelivery ==
    /\ connected_clients = {}
    /\ \/ taskpc = "mock_sleep" /\ data' # data
       \/ taskpc = "serial_sleep" /\ ChunkHasReading /\ device' # device

\* C14: a reading that is to be delivered while connected_clients is empty is
\* dropped silently: nothing is sent, no pass is begun, no error is recorded,
\* connected_clients stays empty and the producer is back at its sleep, ready
\* for the next turn.
C14_EmptyRegistryDeliveryIsNoOp ==
    [][EmptyDelivery =>
          /\ UNCHANGED <<received, failedSend, websockets_to_remove, passNo, message>>
          /\ taskError' = taskError
          /\ connected_clients' = {}
          /\ taskpc' = taskpc]_vars

\* the device's whole transmission, readings included, was read without a
\* subscriber ever connecting
C14_Witness ==
    /\ \A h \in Handles : hpc[h] = "new" /\ received[h] = <<>>
    /\ passNo = 0 /\ taskError = "none"
    /\ taskpc = "serial_sleep" /\ hs_ser = "open" /\ device = <<>> /\ buffer = <<>>

----------------------------------------------------------------------------
(* serial_monitor.generate_mock_data: the pH walk *)

\* values random.uniform(-0.05, 0.05) and random.uniform(-0.02, 0.02) can
\* return (the end points included or missed by one rounding), in thousandths
UniformTrend == {-TrendBound, 0, TrendBound}

\* the mutant of UniformNoise: a noise of up to 0.2
UniformNoiseWide == {-10 * NoiseBound, 0, 10 * NoiseBound}

UniformNoise == {-NoiseBound, -5, 0, 15, NoiseBound}

\* max(4.0, min(9.0, x))
ClampPh(x) ==
    LET capped == IF x > PhHigh THEN PhHigh ELSE x
    IN  IF capped < PhLow THEN PhLow ELSE capped

\* f"{x:.2f}" of a positive value x given in thousandths: the nearest
\* hundredth, an exact tie going to the even digit
FormatPh(x) ==
    LET q == x \div 10
        r == x % 10
        h == IF r > 5 \/ (r = 5 /\ q % 2 = 1) THEN q + 1 ELSE q
    IN  FormatFixed2(Dec(h, 2))

\* the pH moves by trend plus noise and is clamped, the string is formatted
MovePh(ph_trend, duration) ==
    \E ph_noise \in UniformNoise :
        LET ph == ClampPh(mock_data.ph + ph_trend + ph_noise)
        IN  /\ mock_data' = [ph |-> ph, ph_trend |-> ph_trend,
                             trend_duration |-> duration]
            /\ mock_data_str' = FormatPh(ph)

\* one call: the duration counts down, and when it has run out a new duration
\* and a new trend are drawn
GenerateMockData ==
    /\ IF mock_data.trend_duration - 1 <= 0
       THEN \E duration \in DurationMin..DurationMax, trend \in UniformTrend :
               MovePh(trend, duration)
       ELSE MovePh(mock_data.ph_trend, mock_data.trend_duration - 1)

InitMock == ParseIdle /\ ServerIdle /\ SPIdle /\ MonitorStart /\ PortIdle

\* write_mock_data_to_log: the call, over and over
NextMock ==
    /\ GenerateMockData
    /\ UNCHANGED <<mon_pc, mon_ser, retries, mon_calls, mon_device, mon_logged, mon_emitted>>
    /\ UNCHANGED <<parseVars, serverVars, spVars, httpVars, portVars>>

SpecMock == InitMock /\ [][NextMock]_vars

\* the pH a generated string carries, in hundredths
EmittedPh(str) ==
    LET v == ParseFloat(str).val IN v.m * Pow10(2 - v.e)

\* C15 as stated: every string generate_mock_data returns, however many calls
\* went before, carries a pH from 4 to 9 that is at most 0.05 + 0.02 away from
\* the pH of the string returned by the call before.
C15_PhWalkIsBounded ==
    [][mock_data' # mock_data =>
          /\ ParseFloat(mock_data_str').ok
          /\ LET new == EmittedPh(mock_data_str')
             IN  /\ 100 * PhLow <= 1000 * new /\ 1000 * new <= 100 * PhHigh
                 /\ mock_data_str # <<>> =>
                       LET d == new - EmittedPh(mock_data_str)
                       IN  /\ 10 * d <= TrendBound + NoiseBound
                           /\ -10 * d <= TrendBound + NoiseBound]_vars

\* C15 as amended: mock_data['ph'] stays from 4 to 9 and moves by at most
\* 0.05 + 0.02 in a call; the pH of the returned string, rounded to two
\* decimals, is from 4 to 9 and at most 0.05 + 0.02 + 0.01 away from the pH of
\* the string returned by the call before.
C15_PhWalkIsBoundedUpToRounding ==
    [][mock_data' # mock_data =>
          /\ PhLow <= mock_data'.ph /\ mock_data'.ph <= PhHigh
          /\ mock_data'.ph - mock_data.ph <= TrendBound + NoiseBound
          /\ mock_data.ph - mock_data'.ph <= TrendBound + NoiseBound
          /\ ParseFloat(mock_data_str').ok
          /\ LET new == EmittedPh(mock_data_str')
             IN  /\ 100 * PhLow <= 1000 * new /\ 1000 * new <= 100 * PhHigh
                 /\ mock_data_str # <<>> =>
                       LET d == new - EmittedPh(mock_data_str)
                       IN  /\ 10 * d <= TrendBound + NoiseBound + 10
                           /\ -10 * d <= TrendBound + NoiseBound + 10]_vars

\* the walk stands at its upper limit with the trend still pointing upwards
C15_Witness ==
    /\ mock_data.ph = PhHigh /\ mock_data.ph_trend = TrendBound
    /\ mock_data_str = <<"9", ".", "0", "0">>

----------------------------------------------------------------------------
(* The server with peers that stop reading *)

\* a peer connects and never drains its socket: its handler registers it as
\* any other, and nothing sent to it completes
ConnectStalled(h) ==
    /\ Serving /\ hpc[h] = "new"
    /\ \A g \in Handles : g < h => hpc[g] # "new"
    /\ connected_clients' = connected_clients \cup {h}
    /\ hpc' = [hpc EXCEPT ![h] = "initial"]
    /\ stalled' = stalled \cup {h}
    /\ UNCHANGED <<MOCK_DATA, hs_ser, peerOpen, failedSend, received, taskpc, taskError,
                   message, iterStart, iterVisited, websockets_to_remove, buffer,
                   pendingLines, device, passNo, data, walk>>
    /\ UNCHANGED <<parseVars, spVars, httpVars, monVars, portVars>>

NextStall == Next \/ \E h \in Handles : ConnectStalled(h)

SpecStall == Init /\ [][NextStall]_vars

\* the producer's task has a step to take inside its pass
PassCanGoOn ==
    ENABLED (NextSend \/ EndPassMock \/ EndPassSerial
             \/ IterationRaisesMock \/ IterationRaisesSerial)

\* C16: a subscriber whose send never completes does not hold the pass up:
\* while a pass is under way the producer can always go on, to the remaining
\* subscribers and then to the removal of the failed ones and its next cycle.
C16_StalledSendDoesNotBlock ==
    InPass => PassCanGoOn

----------------------------------------------------------------------------
(* The ways hydroponics_server ends *)

\* Ctrl-C: asyncio.run cancels the tasks and re-raises, the except clause of
\* the main block logs "Server shutting down due to keyboard interrupt."
KeyboardInterrupt ==
    /\ taskpc \notin {"off", "boot", "exited"}
    /\ taskpc' = "exited"
    /\ taskError' = "KeyboardInterrupt"
    /\ UNCHANGED <<MOCK_DATA, hs_ser, connected_clients, hpc, peerOpen, failedSend,
                   received, message, iterStart, iterVisited, websockets_to_remove,
                   buffer, pendingLines, device, passNo, data, walk, stalled>>
    /\ UNCHANGED <<parseVars, spVars, httpVars, monVars, portVars>>

\* websockets.serve raises (the port is taken): main logs and calls sys.exit(1)
ServeFails ==
    /\ taskpc = "start" /\ \A h \in Handles : hpc[h] = "new"
    /\ taskpc' = "exited"
    /\ taskError' = "OSError"
    /\ UNCHANGED <<MOCK_DATA, hs_ser, connected_clients, hpc, peerOpen, failedSend,
                   received, message, iterStart, iterVisited, websockets_to_remove,
                   buffer, pendingLines, device, passNo, data, walk, stalled>>
    /\ UNCHANGED <<parseVars, spVars, httpVars, monVars, portVars>>

NextShutdown ==
    \/ taskpc # "exited" /\ Next
    \/ KeyboardInterrupt
    \/ ServeFails

SpecShutdown == Init /\ [][NextShutdown]_vars

\* C17: whichever way the process ends (sys.exit after a failure, keyboard
\* interrupt), the serial connection is not left open: it was closed before.
C17_HandleClosedAtExit ==
    taskpc = "exited" => hs_ser # "open"

----------------------------------------------------------------------------
(* Claims about the traversal of the registry *)

\* a step of the broadcasting task inside a pass (the handlers' steps change
\* hpc or peerOpen)
BroadcasterStep == InPass /\ hpc' = hpc /\ peerOpen' = peerOpen /\ vars' # vars

\* C18: inside a delivery pass the broadcasting task changes connected_clients
\* only in the step that follows the last send of the traversal, and then by
\* removing all of websockets_to_remove at once; a send step only collects:
\* the client whose send failed goes into websockets_to_remove and stays in
\* connected_clients.
C18_RemovalOnlyAfterTraversal ==
    [][BroadcasterStep =>
          /\ connected_clients' # connected_clients =>
                /\ PassLeft /\ MustVisit = {} /\ ~SetChangedSize
                /\ connected_clients' = connected_clients \ websockets_to_remove
          /\ ~PassLeft =>
                /\ websockets_to_remove \subseteq websockets_to_remove'
                /\ \A c \in iterVisited' \ iterVisited :
                      ~peerOpen[c] => /\ c \in websockets_to_remove'
                                      /\ c \in connected_clients']_vars

\* a client whose send failed is collected and still registered while another
\* client of the pass has not been served yet
C18_Witness ==
    /\ InPass /\ MustVisit # {}
    /\ websockets_to_remove # {}
    /\ websockets_to_remove \subseteq connected_clients

----------------------------------------------------------------------------
(* serial_processor.read_serial next to websocket_handler.websocket_handler *)

\* a peer connects: the handler adds its websocket to the set it shares with
\* http_handler and serial_processor and waits for messages (its initial
\* message, which carries no reading, is left out)
WsConnect(h) ==
    /\ sp_pc # "off" /\ hpc[h] = "new"
    /\ \A g \in Handles : g < h => hpc[g] # "new"
    /\ connected_clients' = connected_clients \cup {h}
    /\ hpc' = [hpc EXCEPT ![h] = "recv"]
    /\ UNCHANGED <<MOCK_DATA, hs_ser, peerOpen, failedSend, received, taskpc, taskError,
                   message, iterStart, iterVisited, websockets_to_remove, buffer,
                   pendingLines, device, passNo, data, walk, stalled>>
    /\ UNCHANGED <<parseVars, spVars, httpVars, monVars, portVars>>

NextWs == NextSP \/ \E h \in Handles : WsConnect(h)

SpecWs == InitSP /\ [][NextWs]_vars

\* the chunk read_serial is about to read completes a line with a reading
SpChunkHasReading ==
    /\ sp_device # <<>> /\ Decodable(Head(sp_device))
    /\ LET pieces == Split(sp_buffer \o Decode(Head(sp_device)), "\n")
       IN  \E i \in 1..(Len(pieces) - 1) :
              /\ Strip(pieces[i]) # <<>>
              /\ IsComplete(ParseLineSP(Strip(pieces[i])))

\* C19: when serial_processor.read_serial, its port open, reads bytes that
\* complete a line with all four fields, every websocket in connected_clients
\* is sent the reading.
C19_ReadingsAreForwarded ==
    [][(sp_ser' = "open" /\ SpChunkHasReading /\ sp_reads' # sp_reads) =>
          \A c \in connected_clients : Len(received'[c]) > Len(received[c])]_vars

----------------------------------------------------------------------------
(* Claims about I/O errors in serial_processor.read_serial *)

\* C20: a SerialException raised in the try block of a turn leaves ser None
\* with reconnect attempts to spare; the turn after it goes through the
\* reconnect branch, where a failed attempt counts and reads nothing, and
\* bytes are read again only from a connection that initialize_serial has
\* just opened.
C20_SerialErrorLeadsToReconnect ==
    [][spVars' # spVars =>
          /\ sp_event' = "SerialException" =>
                /\ sp_ser' = "None"
                /\ reconnect_attempts' < max_reconnect_attempts
          /\ sp_event = "SerialException" =>
                /\ sp_ser = "None" /\ sp_path' = "reconnect"
                /\ reconnect_attempts' \in {reconnect_attempts + 1, 0}
                /\ reconnect_attempts' = reconnect_attempts + 1 =>
                      UNCHANGED <<sp_reads, sp_device, sp_buffer>>
                /\ sp_reads' # sp_reads => sp_ser' = "open"]_vars

\* the port failed in a poll after bytes had been read from it
C20_Witness ==
    /\ sp_event = "SerialException" /\ sp_path = "poll"
    /\ sp_ser = "None" /\ sp_reads >= 1

----------------------------------------------------------------------------
(* Claims about decode errors *)

\* C21: in serial_processor.read_serial a turn whose bytes do not decode
\* leaves the parse buffer empty, whatever partial line it held, the connection
\* open and the loop running, so that the next turn polls again; the reconnect
\* counter keeps the value it had when the try block was entered (its own
\* value in a polling turn, 0 after the reconnect that opened the port).
C21_DecodeErrorClearsBufferOnly ==
    [][(sp_event' = "UnicodeDecodeError" /\ sp_reads' # sp_reads) =>
          /\ sp_buffer' = <<>>
          /\ sp_ser' = "open" /\ sp_pc' = "loop"
          /\ sp_path' = "poll" => reconnect_attempts' = reconnect_attempts
          /\ sp_path' # "poll" => reconnect_attempts' = 0]_vars

\* the undecodable chunk arrived in a polling turn after the chunk that left a
\* partial line in the buffer
C21_Witness ==
    /\ sp_event = "UnicodeDecodeError" /\ sp_path = "poll"
    /\ sp_reads = 2 /\ sp_device = <<ChunkTail>>
    /\ sp_buffer = <<>> /\ sp_ser = "open" /\ sp_pc = "loop"

\* C22: in hydroponics_server.read_serial a read whose bytes do not decode
\* leaves the parse buffer empty, so that a partial line retained before the
\* error is never joined with the bytes read after it.
C22_HsDecodeErrorClearsBuffer ==
    [][(/\ taskpc = "serial_sleep" /\ device # <<>> /\ ~Decodable(Head(device))
        /\ device' = Tail(device)) => buffer' = <<>>]_vars

----------------------------------------------------------------------------
(* serial_monitor.py: main *)

MAX_RETRIES == 5
RETRY_DELAY == 3
MaxEmissions == 1   \* strings write_mock_data_to_log logs over a run of main

\* lines 105-116: the arguments are parsed; --mock goes straight to the
\* synthetic log, otherwise the connect loop starts with retries = 0
MonMain ==
    /\ mon_pc = "start"
    /\ \E mock \in BOOLEAN : mon_pc' = IF mock THEN "mock" ELSE "connect"
    /\ mon_ser' = "None" /\ retries' = 0
    /\ UNCHANGED <<mock_data, mock_data_str, mon_calls, mon_device, mon_logged, mon_emitted>>
    /\ UNCHANGED <<parseVars, serverVars, spVars, httpVars, portVars>>

\* the mutant of MonOpen: every failed open is followed by the sleep
MonOpenAlwaysSleeps ==
    /\ mon_pc = "connect" /\ retries < MAX_RETRIES
    /\ \E opened \in BOOLEAN :
          IF opened
          THEN /\ mon_ser' = "open" /\ mon_pc' = "read"
               /\ mon_calls' = Append(mon_calls, [call |-> "Serial", arg |-> 0])
               /\ mon_device' \in {<<ChunkGood, ChunkGood>>,
                                    <<ChunkGood, ChunkUndecodable, ChunkGood>>}
               /\ UNCHANGED retries
          ELSE /\ retries' = retries + 1
               /\ mon_calls' = mon_calls \o <<[call |-> "Serial", arg |-> 0],
                                               [call |-> "sleep", arg |-> RETRY_DELAY]>>
               /\ mon_pc' = IF retries + 1 < MAX_RETRIES THEN "connect" ELSE "mock"
               /\ UNCHANGED <<mon_ser, mon_device>>
    /\ UNCHANGED <<mock_data, mock_data_str, mon_logged, mon_emitted>>
    /\ UNCHANGED <<parseVars, serverVars, spVars, httpVars, portVars>>

\* lines 124-141: one turn of "while retries < MAX_RETRIES".  A successful
\* open breaks out into the read loop; a failed one counts, and sleeps
\* RETRY_DELAY if a turn is left; after the last failure ser is None and main
\* falls back to the synthetic log
MonOpen ==
    /\ mon_pc = "connect" /\ retries < MAX_RETRIES
    /\ \E opened \in BOOLEAN :
          IF opened
          THEN /\ mon_ser' = "open" /\ mon_pc' = "read"
               /\ mon_calls' = Append(mon_calls, [call |-> "Serial", arg |-> 0])
               /\ mon_device' \in {<<ChunkGood, ChunkGood>>,
                                    <<ChunkGood, ChunkUndecodable, ChunkGood>>}
               /\ UNCHANGED retries
          ELSE /\ retries' = retries + 1
               /\ mon_calls' = IF retries + 1 < MAX_RETRIES
                                THEN mon_calls \o <<[call |-> "Serial", arg |-> 0],
                                                    [call |-> "sleep", arg |-> RETRY_DELAY]>>
                                ELSE Append(mon_calls, [call |-> "Serial", arg |-> 0])
               /\ mon_pc' = IF retries + 1 < MAX_RETRIES THEN "connect" ELSE "mock"
               /\ UNCHANGED <<mon_ser, mon_device>>
    /\ UNCHANGED <<mock_data, mock_data_str, mon_logged, mon_emitted>>
    /\ UNCHANGED <<parseVars, serverVars, spVars, httpVars, portVars>>

\* lines 145-164: one turn of the read loop that finds something to do.  A
\* line is read, decoded, stripped and logged if not empty; bytes that do not
\* decode raise UnicodeDecodeError, which "except Exception" answers as
\* "except serial.SerialException" answers a serial error: the port is closed
\* and main goes over to the synthetic log for good
MonRead ==
    /\ mon_pc = "read"
    /\ \/ /\ mon_device # <<>>
          /\ mon_device' = Tail(mon_device)
          /\ IF Decodable(Head(mon_device))
             THEN /\ mon_logged' = IF Strip(Decode(Head(mon_device))) # <<>>
                                   THEN mon_logged + 1 ELSE mon_logged
                  /\ UNCHANGED <<mon_ser, mon_pc>>
             ELSE /\ mon_ser' = "closed" /\ mon_pc' = "mock"
                  /\ UNCHANGED mon_logged
       \/ /\ mon_ser' = "closed" /\ mon_pc' = "mock"
          /\ UNCHANGED <<mon_device, mon_logged>>
    /\ UNCHANGED <<mock_data, mock_data_str, retries, mon_calls, mon_emitted>>
    /\ UNCHANGED <<parseVars, serverVars, spVars, httpVars, portVars>>

\* lines 97-102, called from main: a string is generated and logged
WriteMockDataToLog ==
    /\ mon_pc = "mock" /\ mon_emitted < MaxEmissions
    /\ GenerateMockData
    /\ mon_emitted' = mon_emitted + 1
    /\ UNCHANGED <<mon_pc, mon_ser, retries, mon_calls, mon_device, mon_logged>>
    /\ UNCHANGED <<parseVars, serverVars, spVars, httpVars, portVars>>

InitMonitor ==
    /\ PortIdle
    /\ ParseIdle /\ ServerIdle /\ SPIdle
    /\ mock_data = [ph |-> PhStart, ph_trend |-> 0, trend_duration |-> 0]
    /\ mock_data_str = <<>>
    /\ mon_pc = "start" /\ mon_ser = "None" /\ retries = 0 /\ mon_calls = <<>>
    /\ mon_device = <<>> /\ mon_logged = 0 /\ mon_emitted = 0

NextMonitor == MonMain \/ MonOpen \/ MonRead \/ WriteMockDataToLog

SpecMonitor == InitMonitor /\ [][NextMonitor]_vars

\* C23: in serial_monitor.main a received line that cannot be decoded is not
\* fatal to live acquisition: the connection stays open and main stays in its
\* read loop, ready for the later lines.
C23_MonitorDecodeErrorKeepsReading ==
    [][(/\ mon_pc = "read" /\ mon_device # <<>> /\ ~Decodable(Head(mon_device))
        /\ mon_device' = Tail(mon_device)) =>
          mon_ser' = "open" /\ mon_pc' = "read"]_vars

----------------------------------------------------------------------------
(* Opening the port: hydroponics_server's start-up, serial_monitor.main and *)
(* serial_processor.initialize_serial called on its own                     *)

\* the device sends a line before the program has opened the port
DeviceSendsEarly ==
    /\ in_waiting = <<>>
    /\ taskpc = "boot" \/ init_returned = "ready"
    /\ in_waiting' = Encode(<<"p","H",":","5",".","5",",","t","e","m","p",":","2","0",".","5",",","w","a","t","e","r",":","h","i","g","h",",","t","d","s",":","3","0","0">> \o <<"\n">>)
    /\ UNCHANGED <<initial_data, port, init_calls, init_returned>>
    /\ UNCHANGED <<parseVars, serverVars, spVars, httpVars, monVars>>

\* one call of initialize_serial: on success the global ser is the open port
\* (line 49) and what waited in its input buffer has been read and logged
\* (lines 52-55); otherwise the global is left as it was
CallInitializeSerial ==
    /\ init_returned = "ready"
    /\ LET r == InitializeSerialCall(port)
       IN  /\ init_returned' = r.ser /\ init_calls' = r.calls
           /\ IF r.ser = "open"
              THEN sp_ser' = "open" /\ initial_data' = in_waiting /\ in_waiting' = <<>>
              ELSE UNCHANGED <<sp_ser, initial_data, in_waiting>>
    /\ UNCHANGED port
    /\ UNCHANGED <<settings_MOCK_DATA, sp_pc, reconnect_attempts, no_data_warning_sent,
                   silence, sp_gap, sp_buffer, sp_reads, sp_device, sp_path, sp_event>>
    /\ UNCHANGED <<parseVars, serverVars, httpVars, monVars>>

\* hydroponics_server about to start, or serial_monitor.main, or
\* initialize_serial about to be called with the global ser None or a port
\* that has been closed
InitOpen ==
    \/ Init
    \/ InitMonitor
    \/ /\ ParseIdle /\ ServerIdle /\ MonitorStart
       /\ settings_MOCK_DATA = FALSE /\ sp_ser \in {"None", "closed"} /\ sp_pc = "off"
       /\ reconnect_attempts = 0 /\ no_data_warning_sent = FALSE
       /\ silence = 0 /\ sp_gap = 0 /\ sp_buffer = <<>> /\ sp_reads = 0
       /\ sp_device = <<>> /\ sp_path = "none" /\ sp_event = "none"
       /\ api_response = NoResponse /\ api_code = 0 /\ api_count = 0
       /\ in_waiting = <<>> /\ initial_data = <<>>
       /\ port \in Ports /\ init_calls = <<>> /\ init_returned = "ready"

NextOpen == Next \/ NextMonitor \/ CallInitializeSerial \/ DeviceSendsEarly

SpecOpen == InitOpen /\ [][NextOpen]_vars

\* the calls are open attempts with a sleep of the fixed delay between two
\* of them, n attempts at most
BoundedRetry(calls, n, delay) ==
    /\ Len(calls) <= 2 * n - 1
    /\ \A i \in 1..Len(calls) :
          calls[i] = IF i % 2 = 1 THEN [call |-> "Serial", arg |-> 0]
                     ELSE [call |-> "sleep", arg |-> delay]

\* C24: serial_processor.initialize_serial (5 attempts, 3 s) and
\* serial_monitor.main (MAX_RETRIES attempts, RETRY_DELAY s) make at most the
\* configured number of open attempts, sleep the fixed delay between two
\* consecutive attempts and nowhere else, make no attempt after the one that
\* succeeded, and after the last failure neither sleep nor try again.
C24_OpenRetriesAreBounded ==
    /\ BoundedRetry(init_calls, max_retries, retry_delay)
    /\ init_returned = "open" =>
          /\ port.opens[(Len(init_calls) + 1) \div 2] = "ok"
          /\ \A j \in 1..((Len(init_calls) - 1) \div 2) : port.opens[j] # "ok"
    /\ (/\ init_returned = "None" /\ init_calls # <<>>
        /\ \A j \in 1..max_retries : port.opens[j] = "SerialException") =>
          Len(init_calls) = 2 * max_retries - 1
    /\ BoundedRetry(mon_calls, MAX_RETRIES, RETRY_DELAY)
    /\ mon_ser # "None" => Len(mon_calls) = 2 * retries + 1
    /\ retries = MAX_RETRIES =>
          mon_ser = "None" /\ mon_pc = "mock" /\ Len(mon_calls) = 2 * MAX_RETRIES - 1

\* initialize_serial has returned None after max_retries failed opens and
\* the sleeps between them
C24_Witness ==
    /\ init_returned = "None"
    /\ Len(init_calls) = 2 * max_retries - 1
    /\ init_calls[Len(init_calls)].call = "Serial"
    /\ init_calls[2] = [call |-> "sleep", arg |-> retry_delay]

\* main has given up after MAX_RETRIES failed opens and the sleeps between them
C24_MonitorGivesUp ==
    /\ retries = MAX_RETRIES /\ mon_pc = "mock"
    /\ Len(mon_calls) = 2 * MAX_RETRIES - 1

----------------------------------------------------------------------------
(* Claims about the reconnect counter *)

\* C25: in serial_processor.read_serial reconnect_attempts never exceeds
\* max_reconnect_attempts, and it is 0 whenever the turn just ended has read
\* bytes from the device.
C25_ReconnectCounterBounded ==
    /\ reconnect_attempts <= max_reconnect_attempts
    /\ sp_event \in {"data", "UnicodeDecodeError"} => reconnect_attempts = 0

\* the counter stands at its bound
C25_Witness ==
    /\ sp_pc = "loop" /\ sp_ser = "None" /\ sp_path = "reconnect"
    /\ reconnect_attempts = max_reconnect_attempts

\* bytes were read in the turn that reconnected
C25_ReadAfterReconnect ==
    sp_path = "reconnect" /\ sp_event = "data" /\ reconnect_attempts = 0

----------------------------------------------------------------------------
(* Claims about the port's availability *)

\* the path is absent, or a process other than serial_monitor.py holds the port
AbsentOrForeign ==
    ~port.exists \/ \E cmd \in port.cmds : cmd # "serial_monitor.py"

\* C26: initialize_serial, called when the device path is absent or the
\* port is held by a process other than serial_monitor.py, makes no open
\* attempt, returns None and leaves the global ser as it was.
C26_NoOpenOnAbsentOrForeignPort ==
    [][(init_returned = "ready" /\ init_returned' # "ready" /\ AbsentOrForeign) =>
          /\ init_calls' = <<>>
          /\ init_returned' = "None"
          /\ sp_ser' = sp_ser]_vars

----------------------------------------------------------------------------
(* Claims about the bytes that wait at the port when it is opened *)

\* C27: once hydroponics_server's start-up or initialize_serial has opened
\* the port, nothing of what waited in its input buffer is left for the read
\* loop: the bytes have been read and logged, they are not among the chunks
\* the loop will read nor in a parse buffer, and the reading they carry is
\* never the message of a delivery pass.
C27_PendingBytesAreFlushed ==
    /\ (hs_ser = "open" \/ init_returned = "open") => in_waiting = <<>>
    /\ initial_data # <<>> =>
          /\ \A i \in 1..Len(device) : device[i] # initial_data
          /\ \A i \in 1..Len(sp_device) : sp_device[i] # initial_data
          /\ sp_buffer = <<>>
          /\ buffer # Decode(initial_data)
          /\ message # JsonDumps(ParseLineHS(Strip(Decode(initial_data))))

\* a line waited when hydroponics_server opened the port, and a reading has
\* been delivered since
C27_Witness ==
    /\ hs_ser = "open" /\ initial_data # <<>> /\ in_waiting = <<>>
    /\ passNo > 0 /\ \E h \in Handles : received[h] # <<>>

\* a line waited when initialize_serial opened the port
C27_FlushedByInitializeSerial ==
    init_returned = "open" /\ sp_ser = "open" /\ initial_data # <<>> /\ in_waiting = <<>>

----------------------------------------------------------------------------
(* Claims about the synthetic fallback of hydroponics_server *)

\* C28: a failed open at start-up does not end hydroponics_server: MOCK_DATA
\* is set and read_serial is started; in synthetic mode the task stays in
\* generate_mock_data's loop, sleeping or delivering, so that subscribers go
\* on being served every cycle; and every /api/status answer given in
\* synthetic mode reports mockData true.
C28_OpenFailureFallsBackToSynthetic ==
    [][/\ (taskpc = "boot" /\ ~MOCK_DATA /\ taskpc' # "boot" /\ hs_ser' = "None") =>
             MOCK_DATA' /\ taskpc' = "start"
       /\ (MOCK_DATA' /\ taskpc' \notin {"off", "boot"}) =>
             taskpc' \in {"start", "mock_sleep", "mock_pass"}
       /\ (MOCK_DATA /\ taskpc # "off" /\ api_count' # api_count) =>
             api_response'.mockData = TRUE]_vars

----------------------------------------------------------------------------
(* hydroponics_server in synthetic mode with the generator's locals followed *)

NextWalk ==
    \/ Startup
    \/ ReadSerialStart
    \/ \E h \in Handles : Connect(h)
    \/ \E h \in Handles : SendInitial(h)
    \/ MockTurn
    \/ NextSend
    \/ IterationRaisesMock
    \/ EndPassMock

SpecWalk == Init /\ [][NextWalk]_vars

\* the value of a JSON number, in tenths
Tenths(v) == v.m * Pow10(1 - v.e)

\* C29: every reading generate_mock_data of hydroponics_server broadcasts has
\* ph from 4 to 9, temperature from 15 to 35 and tds from 200 to 1500, the
\* ranges serial_monitor.generate_mock_data keeps its readings in.
C29_SyntheticReadingsInRange ==
    taskpc = "mock_pass" =>
        /\ 40 <= Tenths(Member(message, "ph")) /\ Tenths(Member(message, "ph")) <= 90
        /\ 150 <= Tenths(Member(message, "temperature"))
        /\ Tenths(Member(message, "temperature")) <= 350
        /\ 200 <= Member(message, "tds").n /\ Member(message, "tds").n <= 1500

----------------------------------------------------------------------------
(* serial_monitor.generate_mock_data: the water level.  The call updates   *)
(* 'water' and 'water_counter' from nothing but themselves and a choice,   *)
(* so they are followed on their own.                                      *)

WaterPeriod == 50

\* the mutant of GenerateWater: the index wraps around instead of being held
GenerateWaterWraps ==
    /\ "water" \in DOMAIN mock_data
    /\ LET water_options == <<<<"l","o","w">>, Medium, <<"h","i","g","h">>>>
           current_index == (CHOOSE i \in 1..3 : water_options[i] = mock_data.water) - 1
       IN  IF mock_data.water_counter + 1 >= WaterPeriod
           THEN \E choice \in {-1, 0, 1} :
                   LET new_index == (current_index + choice + 3) % 3
                   IN  /\ mock_data' = [water |-> water_options[new_index + 1],
                                        water_counter |-> 0]
                       /\ mock_data_str' = water_options[new_index + 1]
           ELSE /\ mock_data' = [mock_data EXCEPT !.water_counter = @ + 1]
                /\ mock_data_str' = mock_data.water
    /\ UNCHANGED <<mon_pc, mon_ser, retries, mon_calls, mon_device, mon_logged, mon_emitted>>
    /\ UNCHANGED <<parseVars, serverVars, spVars, httpVars, portVars>>

\* lines 82-90 and the water member of the string: the counter counts the
\* calls; at the 50th it starts again and the level moves by a choice of -1,
\* 0 or 1, held between low and high
GenerateWater ==
    /\ "water" \in DOMAIN mock_data
    /\ LET water_options == <<<<"l","o","w">>, Medium, <<"h","i","g","h">>>>
           current_index == (CHOOSE i \in 1..3 : water_options[i] = mock_data.water) - 1
       IN  IF mock_data.water_counter + 1 >= WaterPeriod
           THEN \E choice \in {-1, 0, 1} :
                   LET moved == current_index + choice
                       new_index == IF moved > 2 THEN 2 ELSE IF moved < 0 THEN 0 ELSE moved
                   IN  /\ mock_data' = [water |-> water_options[new_index + 1],
                                        water_counter |-> 0]
                       /\ mock_data_str' = water_options[new_index + 1]
           ELSE /\ mock_data' = [mock_data EXCEPT !.water_counter = @ + 1]
                /\ mock_data_str' = mock_data.water
    /\ UNCHANGED <<mon_pc, mon_ser, retries, mon_calls, mon_device, mon_logged, mon_emitted>>
    /\ UNCHANGED <<parseVars, serverVars, spVars, httpVars, portVars>>

InitWater ==
    /\ ParseIdle /\ ServerIdle /\ SPIdle /\ PortIdle
    /\ mock_data = [water |-> Medium, water_counter |-> 0]
    /\ mock_data_str = <<>>
    /\ mon_pc = "off" /\ mon_ser = "None" /\ retries = 0 /\ mon_calls = <<>>
    /\ mon_device = <<>> /\ mon_logged = 0 /\ mon_emitted = 0

SpecWater == InitWater /\ [][GenerateWater]_vars

\* the place of a level on the scale low < medium < high
Ordinal(water) ==
    IF water = <<"l","o","w">> THEN 0 ELSE IF water = Medium THEN 1 ELSE 2

\* C30: in serial_monitor.generate_mock_data the emitted water level changes
\* only in the call that brings water_counter back to 0, which is every 50th
\* call, so at most once in any 50 consecutive emissions; a change moves the
\* level exactly one step on the scale low < medium < high.
C30_WaterLevelIsRateLimited ==
    [][mock_data' # mock_data =>
          /\ mock_data_str' = mock_data'.water
          /\ mock_data'.water_counter = (mock_data.water_counter + 1) % WaterPeriod
          /\ mock_data'.water # mock_data.water =>
                /\ mock_data'.water_counter = 0
                /\ Ordinal(mock_data'.water) - Ordinal(mock_data.water) \in {-1, 1}]_vars

\* the level has just gone up to high at a 50th call
C30_Witness ==
    /\ mock_data.water = <<"h","i","g","h">> /\ mock_data.water_counter = 0
    /\ mock_data_str = <<"h","i","g","h">>

----------------------------------------------------------------------------
(* Claims about the water level of hydroponics_server's generator *)

\* C31: the water levels of two readings hydroponics_server.generate_mock_data
\* broadcasts one after the other are the same or neighbours on the scale
\* low < medium < high: a subscriber never gets low right after high or high
\* right after low.
C31_HsWaterLevelMovesOneStep ==
    \A h \in Handles : \A i \in 1..(Len(received[h]) - 1) :
        received[h][i + 1].n = received[h][i].n + 1 =>
            Ordinal(Member(received[h][i + 1].msg, "waterLevel").s)
              - Ordinal(Member(received[h][i].msg, "waterLevel").s) \in {-1, 0, 1}

----------------------------------------------------------------------------
(* Claims about the water level the parser hands on *)

\* C32: the waterLevel of a reading the line parser produces is the line's
\* token in lowercase, whatever the token is, in hydroponics_server.read_serial
\* as in serial_processor.read_serial.
C32_WaterLevelIsLowercased ==
    (kind = "wire" /\ WellFormed(desc) /\ done >= 1) =>
        /\ Len(forwarded) >= 1
        /\ IsString(Member(forwarded[1], "waterLevel"), StrLower(desc.water.txt))

----------------------------------------------------------------------------
(* The websocket handlers on their own: hydroponics_server with its        *)
(* handlers, and the handlers of websocket_handler.py while read_serial of *)
(* serial_processor rests                                                  *)

\* the mutant of WsExit: the finally block empties the set
WsExitClearsSet(h) ==
    /\ sp_pc # "off" /\ hpc[h] = "recv"
    /\ \E path \in {"closed", "ConnectionClosed", "Exception"} :
          path = "Exception" \/ ~peerOpen[h]
    /\ hpc' = [hpc EXCEPT ![h] = "closed"]
    /\ peerOpen' = [peerOpen EXCEPT ![h] = FALSE]
    /\ connected_clients' = {}
    /\ UNCHANGED <<MOCK_DATA, hs_ser, failedSend, received, taskpc, taskError,
                   message, iterStart, iterVisited, websockets_to_remove, buffer,
                   pendingLines, device, passNo, data, walk, stalled>>
    /\ UNCHANGED <<parseVars, spVars, httpVars, monVars, portVars>>

\* websocket_handler.websocket_handler returns: the receive loop has ended
\* because the peer closed, ConnectionClosed was raised, or another exception
\* was raised in it (which can happen with the peer still there: a binary
\* message makes message.startswith("command:") raise TypeError); the finally
\* block removes the websocket if it is still in the set, and the connection
\* is closed when the handler has returned
WsExit(h) ==
    /\ sp_pc # "off" /\ hpc[h] = "recv"
    /\ \E path \in {"closed", "ConnectionClosed", "Exception"} :
          path = "Exception" \/ ~peerOpen[h]
    /\ hpc' = [hpc EXCEPT ![h] = "closed"]
    /\ peerOpen' = [peerOpen EXCEPT ![h] = FALSE]
    /\ connected_clients' = connected_clients \ {h}
    /\ UNCHANGED <<MOCK_DATA, hs_ser, failedSend, received, taskpc, taskError,
                   message, iterStart, iterVisited, websockets_to_remove, buffer,
                   pendingLines, device, passNo, data, walk, stalled>>
    /\ UNCHANGED <<parseVars, spVars, httpVars, monVars, portVars>>

NextHandlers ==
    \/ taskpc # "off" /\ Next
    \/ sp_pc # "off" /\ \E h \in Handles : WsConnect(h)
    \/ sp_pc # "off" /\ \E h \in Handles : PeerClose(h)
    \/ \E h \in Handles : WsExit(h)

SpecHandlers == InitHttp /\ [][NextHandlers]_vars

\* C33: when a websocket handler of either server returns for a handle it
\* has registered, by whichever path (the peer closed, ConnectionClosed,
\* another exception in the receive loop, or the receive loop ending after
\* the initial message failed), the handle is not in connected_clients
\* afterwards and the set has lost no other handle in that step.
C33_HandlerExitRemovesOwnHandle ==
    [][\A h \in Handles :
          (hpc[h] \in {"initial", "recv"} /\ hpc'[h] = "closed") =>
              /\ h \notin connected_clients'
              /\ connected_clients' = connected_clients \ {h}]_vars

\* a handler of websocket_handler.py has returned while the other handle is
\* still registered
C33_Witness ==
    /\ sp_pc # "off" /\ hpc[1] = "closed" /\ hpc[2] = "recv"
    /\ connected_clients = {2}

\* a handler of hydroponics_server has returned after its initial message
\* failed while the other handle is still registered
C33_HsExitAfterFailedInitial ==
    /\ taskpc # "off" /\ hpc[1] = "closed" /\ failedSend[1] /\ received[1] = <<>>
    /\ hpc[2] = "recv" /\ connected_clients = {2}

----------------------------------------------------------------------------
(* The two read loops on a byte stream that reaches them in chunks: the    *)
(* read, the decoding, the buffer and the for loop over the complete lines *)

MaxChunks == 3      \* reads a stream is split over

\* one turn of "while True" with bytes waiting: ser.read(ser.in_waiting) is
\* decoded and appended to the buffer, the buffer is split at the line
\* breaks and its last piece kept; a chunk that does not decode is dropped
\* (hydroponics_server: logged by except Exception; serial_processor: the
\* buffer is cleared as well)
ReadChunk ==
    /\ kind = "chunks" /\ lines = <<>>
    /\ LET dev == IF variant = "hs" THEN device ELSE sp_device
           buf == IF variant = "hs" THEN buffer ELSE sp_buffer
           pieces == Split(buf \o Decode(Head(dev)), "\n")
           out == IF Decodable(Head(dev))
                  THEN [buffer |-> pieces[Len(pieces)],
                        lines |-> SubSeq(pieces, 1, Len(pieces) - 1)]
                  ELSE [buffer |-> IF variant = "sp" THEN <<>> ELSE buf, lines |-> <<>>]
       IN  /\ dev # <<>>
           /\ lines' = out.lines
           /\ IF variant = "hs"
              THEN /\ buffer' = out.buffer /\ device' = Tail(device)
                   /\ UNCHANGED <<sp_buffer, sp_device, sp_reads>>
              ELSE /\ sp_buffer' = out.buffer /\ sp_device' = Tail(sp_device)
                   /\ sp_reads' = sp_reads + 1
                   /\ UNCHANGED <<buffer, device>>
    /\ UNCHANGED <<kind, variant, desc, rd, done, forwarded, warned>>
    /\ UNCHANGED <<MOCK_DATA, hs_ser, connected_clients, hpc, peerOpen, failedSend,
                   received, taskpc, taskError, message, iterStart, iterVisited,
                   websockets_to_remove, pendingLines, passNo, data, walk, stalled>>
    /\ UNCHANGED <<settings_MOCK_DATA, sp_ser, sp_pc, reconnect_attempts,
                   no_data_warning_sent, silence, sp_gap, sp_path, sp_event>>
    /\ UNCHANGED <<httpVars, monVars, portVars>>

\* The device sends one of two streams, desc: two lines and the beginning of
\* a third, or a line whose water level has a character of two bytes.  The
\* reads return it in one, two or three chunks, cut anywhere.
InitChunks ==
    LET RECURSIVE Chunkings(_, _)
        Chunkings(bytes, k) ==
            IF k = 1 THEN {<<bytes>>}
            ELSE {<<bytes>>} \cup
                 UNION {{<<SubSeq(bytes, 1, i)>> \o rest :
                            rest \in Chunkings(SubSeq(bytes, i + 1, Len(bytes)), k - 1)} :
                        i \in 1..(Len(bytes) - 1)}
        Streams ==
            {ChunkGood \o ChunkHead \o ChunkTail \o Encode(<<"p","H",":","6">>),
             Encode(<<"p","H",":","7",",","t","e","m","p",":","2","3",".","2",",","w","a","t","e","r",":","m">>)
               \o <<195, 169>>
               \o Encode(<<"d","i","u","m",",","t","d","s",":","6","5","2","\n">>)}
    IN  /\ PortIdle /\ MonitorStart
        /\ kind = "chunks" /\ variant \in {"hs", "sp"}
        /\ desc \in Streams /\ rd = NoReading
        /\ lines = <<>> /\ done = 0 /\ forwarded = <<>> /\ warned = 0
        /\ \E chunks \in Chunkings(desc, MaxChunks) :
              /\ device = (IF variant = "hs" THEN chunks ELSE <<>>)
              /\ sp_device = (IF variant = "sp" THEN chunks ELSE <<>>)
        /\ MOCK_DATA = FALSE /\ connected_clients = {}
        /\ hs_ser = (IF variant = "hs" THEN "open" ELSE "None")
        /\ hpc = [h \in Handles |-> "new"]
        /\ peerOpen = [h \in Handles |-> TRUE]
        /\ failedSend = [h \in Handles |-> FALSE]
        /\ received = [h \in Handles |-> <<>>]
        /\ taskpc = "off" /\ taskError = "none" /\ message = <<>>
        /\ iterStart = {} /\ iterVisited = {} /\ websockets_to_remove = {}
        /\ buffer = <<>> /\ pendingLines = <<>> /\ passNo = 0
        /\ data = <<>> /\ stalled = {}
        /\ walk = [ph |-> 65, temp |-> 230, tds |-> 650, water_idx |-> 1]
        /\ settings_MOCK_DATA = FALSE /\ sp_pc = "off"
        /\ sp_ser = (IF variant = "sp" THEN "open" ELSE "None")
        /\ reconnect_attempts = 0 /\ no_data_warning_sent = FALSE
        /\ silence = 0 /\ sp_gap = 0 /\ sp_buffer = <<>> /\ sp_reads = 0
        /\ sp_path = "none" /\ sp_event = "none"
        /\ api_response = NoResponse /\ api_code = 0 /\ api_count = 0

SpecChunks == InitChunks /\ [][ReadChunk \/ ProcessLineHS \/ ProcessLineSP]_vars

\* the readings a loop produces from a sequence of lines
RECURSIVE ReadingsOf(_, _)
ReadingsOf(ls, v) ==
    IF ls = <<>> THEN <<>>
    ELSE LET line == Strip(ls[1])
             parsed_data == IF v = "hs" THEN ParseLineHS(line) ELSE ParseLineSP(line)
         IN  (IF line # <<>> /\ IsComplete(parsed_data)
              THEN <<JsonDumps(parsed_data)>> ELSE <<>>) \o ReadingsOf(Tail(ls), v)

\* what a loop has made of the stream so far agrees with the stream's lines,
\* and once every chunk is read and processed it has made all of it
AgreesWithStream ==
    LET pieces == Split(Decode(desc), "\n")
        complete == SubSeq(pieces, 1, Len(pieces) - 1)
        expected == ReadingsOf(complete, variant)
        dev == IF variant = "hs" THEN device ELSE sp_device
        buf == IF variant = "hs" THEN buffer ELSE sp_buffer
    IN  /\ done <= Len(complete)
        /\ Len(forwarded) <= Len(expected)
        /\ forwarded = SubSeq(expected, 1, Len(forwarded))
        /\ (dev = <<>> /\ lines = <<>>) =>
              /\ done = Len(complete) /\ forwarded = expected
              /\ buf = pieces[Len(pieces)]

\* C34: for a byte stream that decodes, the complete lines the read loop
\* hands to the parser, and so the readings it produces, are those of the
\* stream, however the stream is cut into reads: each line is parsed once,
\* when its line break has arrived, and the unterminated end stays in the
\* buffer.
C34_ChunkingIndependent ==
    (kind = "chunks" /\ Decodable(desc)) => AgreesWithStream

\* the same for streams of ASCII bytes, in which every cut leaves chunks
\* that decode
C34_AsciiChunkingIndependent ==
    (kind = "chunks" /\ \A i \in 1..Len(desc) : desc[i] < 128) => AgreesWithStream

----------------------------------------------------------------------------
(* Claims about a handler that returns during a delivery pass *)

\* C35: a handler of hydroponics_server removing its websocket from
\* connected_clients while a delivery pass is suspended at a send does not
\* make the pass raise or end the broadcasting task, and the pass still
\* reaches the subscribers it had not reached.
C35_ExitDuringPassIsSafe ==
    [][/\ taskError' # "SetShrank"
       /\ (PassLeft /\ Cardinality(connected_clients) < Cardinality(iterStart)) =>
             MustVisit = {}]_vars

----------------------------------------------------------------------------
(* Claims about the silence timer of serial_processor.read_serial *)

\* C36: in the turn of serial_processor.read_serial in which a connection is
\* established again, by a reconnect attempt or after the extended wait,
\* the silence the turn's try block sees has started afresh, and the
\* staleness check does not close the connection that has just been opened.
C36_TimerStartsAfreshOnReconnect ==
    (sp_path \in {"reconnect", "extended"} /\ sp_event # "none") =>
        /\ sp_gap = 0
        /\ sp_event = "quiet" => sp_ser = "open"

----------------------------------------------------------------------------
(* Claims about synthetic mode being for good *)

\* C37: once MOCK_DATA is true in hydroponics_server it stays true; from
\* then on the task is never in the serial loop, nothing is read from the
\* device or put in the parse buffer, every message a subscriber is sent is
\* a reading of generate_mock_data, and every /api/status answer reports
\* mockData true.
C37_SyntheticModeIsAbsorbing ==
    [][MOCK_DATA =>
          /\ MOCK_DATA' /\ hs_ser' = "None"
          /\ taskpc' \notin {"serial_sleep", "serial_pass"}
          /\ device' = device /\ buffer' = buffer /\ pendingLines' = <<>>
          /\ \A h \in Handles :
                received'[h] # received[h] =>
                    received'[h][Len(received'[h])].msg \in {JsonDumps(d) : d \in MockData}
          /\ api_count' # api_count => api_response'.mockData = TRUE]_vars

\* after a failed open a subscriber has been sent a synthetic reading and
\* /api/status has been answered
C37_Witness ==
    /\ MOCK_DATA /\ hs_ser = "None" /\ taskpc \in {"mock_sleep", "mock_pass"}
    /\ \E h \in Handles : received[h] # <<>>
    /\ api_count = 1 /\ api_response.mockData = TRUE

----------------------------------------------------------------------------
(* Claims about the order of delivery *)

\* the text a transmission decodes to, and the reading read_serial makes of
\* each line of the transmissions followed
RECURSIVE TextOf(_)
TextOf(t) ==
    IF t = <<>> THEN <<>>
    ELSE (IF Decodable(t[1]) THEN Decode(t[1]) ELSE <<>>) \o TextOf(Tail(t))

ReadingOfLine ==
    UNION {LET ls == Split(TextOf(t), "\n")
           IN  {<<ls[i], JsonDumps(ParseLineHS(Strip(ls[i])))>> : i \in 1..Len(ls)} :
           t \in Transmissions}

\* C38: in hydroponics_server every delivery appends the message of the
\* pass in progress to what the subscriber has been sent, once, and that
\* pass is later than every pass the subscriber has a message of; a pass
\* keeps its message, the passes are numbered as they begin, and each takes
\* the reading generated in that turn or the next complete line of the
\* chunk, in the chunk's order.  So a subscriber gets the readings in the
\* order of their lines or of their generation, none of them twice.
C38_DeliveredInOrderOnce ==
    [][/\ \A h \in Handles :
             received'[h] # received[h] =>
                 /\ received'[h] = Append(received[h], [n |-> passNo', msg |-> message'])
                 /\ \A i \in 1..Len(received[h]) : received[h][i].n < passNo'
       /\ passNo' = passNo => message' = message
       /\ passNo' # passNo =>
             /\ passNo' = passNo + 1
             /\ IF MOCK_DATA THEN message' = JsonDumps(data')
                ELSE <<pendingLines'[1], message'>> \in ReadingOfLine
             /\ taskpc = "serial_pass" =>
                   \E k \in 1..(Len(pendingLines) - 1) :
                       pendingLines' = SubSeq(pendingLines, k + 1, Len(pendingLines))]_vars

\* both subscribers have been sent the readings of two lines, in two passes
C38_Witness ==
    \A h \in Handles :
        /\ Len(received[h]) = 2
        /\ received[h][1].n = 1 /\ received[h][2].n = 2

----------------------------------------------------------------------------
(* Claims about the persistence of serial_processor.read_serial *)

\* read_serial runs in a thread of its own: whichever turn of its loops is
\* due is eventually taken
SpecSPFair ==
    /\ InitSP
    /\ [][SpEntry \/ SpReconnect \/ SpExtended \/ SpPoll]_vars
    /\ WF_vars(SpEntry \/ SpReconnect \/ SpExtended \/ SpPoll)

WithoutConnection == sp_pc \in {"entry", "loop"} /\ sp_ser = "None"

\* the connection is open and the try block has looked for bytes
ReadingResumed ==
    /\ sp_pc = "loop" /\ sp_ser = "open"
    /\ sp_event \in {"data", "quiet", "UnicodeDecodeError"}

\* a step taken with the device present, free and openable: an attempt made
\* without a connection gets the port, and the port raises nothing
DevicePresentStep ==
    /\ WithoutConnection =>
           IF sp_pc = "entry" THEN sp_ser' = "open" ELSE sp_event' # "none"
    /\ sp_event' \notin {"SerialException", "Exception"}

\* C39: read_serial never gives up on the device: if from some point on the
\* device is present, free and openable, then from every state without a
\* connection, whatever the count of failed attempts, a state follows in
\* which the connection is open and the loop has looked for bytes again.
C39_NeverGivesUp ==
    <>[][DevicePresentStep]_vars => (WithoutConnection ~> ReadingResumed)

\* the attempts were used up, the loop waited its minute, and the attempt
\* after it got the port and read data
C39_Witness ==
    /\ sp_path = "extended" /\ sp_ser = "open" /\ sp_event = "data"

====
